---- MODULE Spec2Model ----
(***************************************************************************)
(* Verification model of the indoor-pathfinding SLAM backend.              *)
(*                                                                         *)
(*   Part A  SLAMJobQueue (utils/job_queue.py): enqueue, start_worker,     *)
(*           _worker_loop, shutdown, with the durable status store.        *)
(*   Part B  finish_scan / process_slam_async (routes/scan.py,             *)
(*           services/slam_service.py): one background task per request,   *)
(*           each running the engine's build pipeline.                     *)
(*   Part C  PostgresAdapter._retry_on_connection_error.                   *)
(*   Part D  the process supervisor of RTABMapEngine (_run_reprocess and   *)
(*           the subprocess section of localize).                          *)
(***************************************************************************)
EXTENDS Integers, Sequences, FiniteSets, TLC

(* ------------------------------ bounds --------------------------------- *)
NumJobs == 2            \* jobs offered to enqueue()
NumScans == 2           \* scan sessions for which /finish is requested
MaxStoreFaults == 1     \* status-store calls that raise after their retries
MaxShutdownCalls == 2   \* shutdown() calls made by the owner
MaxStarts == 2          \* start_worker() calls made by the owner
ScriptLen == 4          \* calls of the wrapped function that are scripted
PipeCapacity == 2       \* units of output a pipe buffers before a write blocks
MaxLines == 3           \* lines of localization output
MaxFrames == 3          \* captured frames of a session
MaxRows == 3            \* rows of the Node table of a database
MaxParams == 2          \* pairs of one slam_params mapping
MaxFeatureRows == 30    \* Feature rows of a database
MaxPoints == 22         \* largest max_points argument
MaxTime == 40           \* last second of the wall clock

Jobs == 1..NumJobs
Scans == 1..NumScans

\* session_db_pairs of a job: even jobs carry two sessions, odd jobs one.
SessCount(j) == IF j % 2 = 0 THEN 2 ELSE 1
SessionIds == {<<j, k>> : j \in Jobs, k \in 1..2} \cap
              {s \in Jobs \X (1..2) : s[2] <= SessCount(s[1])}

Range(s) == {s[i] : i \in DOMAIN s}

(* ------------------------- Part A: state ------------------------------- *)
VARIABLES
  queue,          \* self.queue: jobs put and not yet got
  shutdown_flag,  \* self._shutdown_flag
  worker_task,    \* self.worker_task: "none" | "alive" | "done"
  cancelled,      \* worker_task.cancel() requested, not yet delivered
  wpc,            \* position of _worker_loop
  cur,            \* job held by the worker (0: none)
  idx,            \* index into session_db_pairs of the running for-loop
  last_binary,    \* last_result['binary']: "none" | "empty" | "data"
  error_msg,      \* error_msg of the except handler ("" outside it)
  status,         \* durable status row of each session
  errtext,        \* durable error_message of each session
  writes,         \* per session, the statuses written so far, in order
  artifact,       \* building ids whose maps_dir/<building_id>.db is written
  faults,         \* store calls that raised so far
  enqOrder,       \* jobs in the order their enqueue() returned
  rejected,       \* jobs whose enqueue() raised "Queue is shutting down"
  startOrder,     \* jobs in the order the worker dequeued them
  doneCount,      \* queue.task_done() calls per job
  procOutcome,    \* per job: "none" | "ok" | "raised" (pipeline result)
  storeRaised,    \* per job: a status-store call raised while it ran
  spc,            \* owner inside shutdown(): "idle" | "awaiting"
  shutdownCalls,  \* shutdown() calls begun
  shutdownReturns,\* shutdown() calls returned
  starts,         \* start_worker() calls that created a task
  startErrors     \* start_worker() calls that raised "Worker already running"

qvars == <<queue, shutdown_flag, worker_task, cancelled, wpc, cur, idx,
           last_binary, error_msg, status, errtext, writes, artifact, faults,
           enqOrder, rejected, startOrder, doneCount, procOutcome,
           storeRaised, spc, shutdownCalls, shutdownReturns, starts,
           startErrors>>

(* ------------------------- Part B: state ------------------------------- *)
VARIABLES
  scanPc,         \* per scan session: position of its process_slam_async task
  scanStatus      \* metadata["status"] of the scan session

svars == <<scanPc, scanStatus>>

(* ------------------------- Part C: state ------------------------------- *)
VARIABLES
  script,         \* what func does on its 1st, 2nd, ... call
  attempt,        \* loop variable of the retry wrapper
  rpc,            \* "call" | "sleep" | "returned" | "raised" | "off"
  calls,          \* calls of func made so far
  sleeps,         \* delays slept so far, in milliseconds
  rresult         \* what the caller received

rvars == <<script, attempt, rpc, calls, sleeps, rresult>>

(* ------------------------- Part D: state ------------------------------- *)
VARIABLES
  kind,           \* "build" (_run_reprocess) | "localize" | "off"
  use_docker,     \* self.use_docker
  ppc,            \* supervisor: "idle" | "launching" | "running" | "ended"
  clock,          \* seconds waited in asyncio.wait_for
  child,          \* "none" | "running" | "exited" | "killed"
  returncode,     \* process.returncode (-1: not set)
  kills,          \* forced kills issued, in order
  outcome,        \* "none" | "Completed" | "Timeout" | "EngineFailure"
  out_todo,       \* units of output the child still has to write to stdout
  err_todo,       \* units of output the child still has to write to stderr
  out_pipe,       \* units buffered in the stdout pipe
  err_pipe,       \* units buffered in the stderr pipe
  err_read,       \* units of stderr the supervisor has read
  reaped,         \* the child's exit status has been collected
  message,        \* parts of the message of the raised error
  has_hook,       \* a progress_callback was passed
  monitor_task,   \* "none" | "reading" | "finished" | "cancelled"
  processed,      \* progress markers counted by monitor_output
  progress,       \* percentages delivered to progress_callback, in order
  output_db       \* os.path.exists(output_db)

pipes == <<out_todo, err_todo, out_pipe, err_pipe, err_read>>

monitoring == <<has_hook, monitor_task, processed, progress>>

pvars == <<kind, use_docker, ppc, clock, child, returncode, kills, outcome,
           pipes, reaped, message, monitoring, output_db>>

(* ------------------------- Part E: state ------------------------------- *)
VARIABLES
  lines,            \* stdout_str.split('\n'), as parsed lines
  lpc,              \* interpreter: "off" | "parse" | "lookup" | "done"
  li,               \* index of the next line of the for loop
  matched_node_id,  \* 0 stands for None
  best_hypothesis,  \* in thousandths
  lookups,          \* calls of _extract_node_pose: <<database, node id>>
  row,              \* the Node row fetched by the lookup
  lresult           \* what localize returns or raises

evars == <<lines, lpc, li, matched_node_id, best_hypothesis, lookups, row,
           lresult>>

(* ------------------------- Part F: state ------------------------------- *)
VARIABLES
  listing,        \* os.listdir(images_dir): image file names, in any order
  depth,          \* per name, the depth image: "missing"|"empty"|"zero"|"valid"
  monocular,      \* the monocular argument
  bpc,            \* build_database: "off" | "list" | "frames" | "done"
  image_files,    \* sorted(...) of the listing
  bi,             \* index of the next frame of the for loop
  node_id,        \* last node id given
  skipped,        \* frames skipped
  visited,        \* frames visited by the loop, in order
  node_rows       \* rows inserted into Node: <<id, frame>>

fvars == <<listing, depth, monocular, bpc, image_files, bi, node_id, skipped,
           visited, node_rows>>

(* ------------------------- Part G: state ------------------------------- *)
VARIABLES
  node_table,      \* Node table: id -> length of the pose blob (-1: NULL)
  keyframe_limit,  \* the keyframe_limit argument
  gpc,             \* parse_database: "off" | "count" | "rows" | "done"
  fetched,         \* cursor.fetchall() of the ordered query: node ids
  gi,              \* index of the next fetched row
  keyframes,       \* ids of the keyframes appended, in order
  num_keyframes,   \* 'num_keyframes' of the result (-1: not set)
  db_file,         \* what is at db_path
  num_map_points,  \* 'num_map_points' of the result (-1: not set)
  loop_closures,   \* 'loop_closures' of the result (-1: not set)
  parse_error      \* 'error' of the result ("": no such key)

gvars == <<node_table, keyframe_limit, gpc, fetched, gi, keyframes,
           num_keyframes, db_file, num_map_points, loop_closures,
           parse_error>>

(* ------------------------- Part H: state ------------------------------- *)
VARIABLES
  cal_in,      \* intrinsics given to build_calibration_blob
  cal_blob,    \* the calibration blob of the Data row
  hpc,         \* codec: "off" | "encode" | "decode" | "done"
  cal_out      \* what extract_intrinsics_from_db returns or raises

hvars == <<cal_in, cal_blob, hpc, cal_out>>

(* ------------------------- Part I: state ------------------------------- *)
VARIABLES
  original,    \* the `original` argument of scale_intrinsics
  new_width,   \* the new_width argument
  new_height,  \* the new_height argument
  ipc,         \* scale_intrinsics: "off" | "call" | "done"
  scaled       \* what scale_intrinsics returns or raises

ivars == <<original, new_width, new_height, ipc, scaled>>

(* ------------------------- Part J: state ------------------------------- *)
VARIABLES
  slam_params, \* the slam_params mapping, as its items in order
  params_str,  \* Info.parameters, as a sequence of characters
  jpc,         \* "off" | "write" | "read" | "done"
  params       \* the dict built by extract_params_from_db, items in order

jvars == <<slam_params, params_str, jpc, params>>

(* ------------------------- Part K: state ------------------------------- *)
VARIABLES
  kpc,             \* position of RTABMapEngine.process
  export_outcome,  \* how _run_export ended
  process_result   \* what process returns or raises

kvars == <<kpc, export_outcome, process_result>>

(* ------------------------- Part L: state ------------------------------- *)
VARIABLES
  feature_rows,   \* number of Feature rows with 3-D coordinates (row k is index k)
  max_points,     \* the max_points argument
  pose_by_node,   \* ids of the nodes whose pose blob could be unpacked
  cpc,            \* position of extract_point_cloud
  sampled_rows,   \* indices of the rows picked, in order
  points          \* indices of the rows that produced a point, in order

cvars == <<feature_rows, max_points, pose_by_node, cpc, sampled_rows, points>>

(* ------------------------- Part M: state ------------------------------- *)
VARIABLES
  map_files,     \* map ids whose <map_id>.db exists in MAPS_DIR
  docker_exec,   \* self.use_docker of the engine serving the calls
  now,           \* time.time(), in whole seconds
  on_disk,       \* session directories in SESSIONS_DIR: [dir, owner], owner
                 \* being the call whose query images the directory holds
  zpc,           \* per call: position of localize
  session_dir,   \* per call: its session directory <<map_id, second>>
  rtabmap,       \* per call: its rtabmap-console "none"|"running"|"exited"
  exit_kind,     \* per call: how its rtabmap-console ended
  loc_result     \* per call: what localize returned or raised

mvars == <<map_files, docker_exec, now, on_disk, zpc, session_dir, rtabmap,
           exit_kind, loc_result>>

vars == <<qvars, svars, rvars, pvars, evars, fvars, gvars, hvars, ivars,
          jvars, kvars, cvars, mvars>>

nonQueue ==
  <<svars, rvars, pvars, evars, fvars, gvars, hvars, ivars, jvars, kvars, cvars, mvars>>
nonScans ==
  <<qvars, rvars, pvars, evars, fvars, gvars, hvars, ivars, jvars, kvars, cvars, mvars>>
nonRetry ==
  <<qvars, svars, pvars, evars, fvars, gvars, hvars, ivars, jvars, kvars, cvars, mvars>>
nonSupervisor ==
  <<qvars, svars, rvars, evars, fvars, gvars, hvars, ivars, jvars, kvars, cvars, mvars>>
nonInterpreter ==
  <<qvars, svars, rvars, pvars, fvars, gvars, hvars, ivars, jvars, kvars, cvars, mvars>>
nonBuilder ==
  <<qvars, svars, rvars, pvars, evars, gvars, hvars, ivars, jvars, kvars, cvars, mvars>>
nonParser ==
  <<qvars, svars, rvars, pvars, evars, fvars, hvars, ivars, jvars, kvars, cvars, mvars>>
nonCalibration ==
  <<qvars, svars, rvars, pvars, evars, fvars, gvars, ivars, jvars, kvars, cvars, mvars>>
nonScaling ==
  <<qvars, svars, rvars, pvars, evars, fvars, gvars, hvars, jvars, kvars, cvars, mvars>>
nonParams ==
  <<qvars, svars, rvars, pvars, evars, fvars, gvars, hvars, ivars, kvars, cvars, mvars>>
nonPipeline ==
  <<qvars, svars, rvars, evars, fvars, gvars, hvars, ivars, jvars, cvars, mvars>>

(* ---------------------- durable status store --------------------------- *)
SCAN_STATUS_QUEUED == "queued"
SCAN_STATUS_PROCESSING == "in_progress"
SCAN_STATUS_COMPLETED == "completed"
SCAN_STATUS_FAILED == "failed"


\* Mutant: the message is str(e) alone, which is empty for a bare exception.
FormatError_StrOnly(typeName, text) == text

\* error_msg = f"{type(e).__name__}: {str(e)}"
FormatError(typeName, text) == typeName \o ": " \o text

\* update_status(session_id, status, error_message) when the store accepts it.
update_status(s, st, msg) ==
  /\ status' = [status EXCEPT ![s] = st]
  /\ errtext' = [errtext EXCEPT ![s] = msg]
  /\ writes' = [writes EXCEPT ![s] = Append(@, st)]

\* The same call exhausting its retries: nothing is written, the error is
\* raised to the caller.
StoreRaises ==
  /\ faults < MaxStoreFaults
  /\ faults' = faults + 1
  /\ storeRaised' = [storeRaised EXCEPT ![cur] = TRUE]
  /\ UNCHANGED <<status, errtext, writes>>

StoreErrorText == FormatError("PostgresError", "connection lost")

(* ------------------------- Part A: Init -------------------------------- *)
InitQueue ==
  /\ queue = <<>>
  /\ shutdown_flag = FALSE
  /\ worker_task = "none"
  /\ cancelled = FALSE
  /\ wpc = "unstarted"
  /\ cur = 0
  /\ idx = 0
  /\ last_binary = "none"
  /\ error_msg = ""
  /\ status = [s \in SessionIds |-> SCAN_STATUS_QUEUED]
  /\ errtext = [s \in SessionIds |-> ""]
  /\ writes = [s \in SessionIds |-> <<>>]
  /\ artifact = {}
  /\ faults = 0
  /\ enqOrder = <<>>
  /\ rejected = {}
  /\ startOrder = <<>>
  /\ doneCount = [j \in Jobs |-> 0]
  /\ procOutcome = [j \in Jobs |-> "none"]
  /\ storeRaised = [j \in Jobs |-> FALSE]
  /\ spc = "idle"
  /\ shutdownCalls = 0
  /\ shutdownReturns = 0
  /\ starts = 0
  /\ startErrors = 0

InitScans ==
  /\ scanPc = [s \in Scans |-> "idle"]
  /\ scanStatus = [s \in Scans |-> "none"]

RetryOff ==
  /\ script = <<>>
  /\ attempt = 0
  /\ rpc = "off"
  /\ calls = 0
  /\ sleeps = <<>>
  /\ rresult = "none"

SupervisorOff ==
  /\ kind = "off"
  /\ use_docker = FALSE
  /\ ppc = "idle"
  /\ clock = 0
  /\ child = "none"
  /\ returncode = -1
  /\ kills = <<>>
  /\ outcome = "none"
  /\ out_todo = 0 /\ err_todo = 0
  /\ out_pipe = 0 /\ err_pipe = 0
  /\ err_read = 0
  /\ reaped = FALSE
  /\ message = <<>>
  /\ has_hook = FALSE
  /\ monitor_task = "none"
  /\ processed = 0
  /\ progress = <<>>
  /\ output_db = FALSE

NO_HYPOTHESIS == -999000   \* best_hypothesis = -999.0, in thousandths
NoRow == [id |-> 0, pose |-> "missing", len |-> 0]
NoResult == [kind |-> "none", pose |-> <<>>, confidence |-> -1]

InterpreterOff ==
  /\ lines = <<>>
  /\ lpc = "off"
  /\ li = 1
  /\ matched_node_id = 0
  /\ best_hypothesis = NO_HYPOTHESIS
  /\ lookups = <<>>
  /\ row = NoRow
  /\ lresult = NoResult

BuilderOff ==
  /\ listing = <<>>
  /\ depth = <<>>
  /\ monocular = FALSE
  /\ bpc = "off"
  /\ image_files = <<>>
  /\ bi = 1
  /\ node_id = 0
  /\ skipped = 0
  /\ visited = <<>>
  /\ node_rows = <<>>

ParserOff ==
  /\ node_table = <<>>
  /\ keyframe_limit = 0
  /\ gpc = "off"
  /\ fetched = <<>>
  /\ gi = 1
  /\ keyframes = <<>>
  /\ num_keyframes = -1
  /\ db_file = "none"
  /\ num_map_points = -1
  /\ loop_closures = -1
  /\ parse_error = ""

CodecOff == BuilderOff /\ ParserOff

NoIntrinsics == <<>>
NoBlob == [size |-> 0]
NoOutcome == [kind |-> "none"]

CalibrationOff ==
  /\ cal_in = NoIntrinsics
  /\ cal_blob = NoBlob
  /\ hpc = "off"
  /\ cal_out = NoOutcome

ScalingOff ==
  /\ original = NoIntrinsics
  /\ new_width = 0
  /\ new_height = 0
  /\ ipc = "off"
  /\ scaled = NoOutcome

ParamsOff ==
  /\ slam_params = <<>>
  /\ params_str = <<>>
  /\ jpc = "off"
  /\ params = <<>>

PipelineOff ==
  /\ kpc = "off"
  /\ export_outcome = "none"
  /\ process_result = "none"

SamplingOff ==
  /\ feature_rows = 0
  /\ max_points = 0
  /\ pose_by_node = {}
  /\ cpc = "off"
  /\ sampled_rows = <<>>
  /\ points = <<>>

NoDir == <<0, 0>>

LocalizeOff ==
  /\ map_files = {}
  /\ docker_exec = FALSE
  /\ now = 0
  /\ on_disk = {}
  /\ zpc = <<>>
  /\ session_dir = <<>>
  /\ rtabmap = <<>>
  /\ exit_kind = <<>>
  /\ loc_result = <<>>

ToolsOff == CalibrationOff /\ ScalingOff /\ ParamsOff /\ PipelineOff

Init ==
  /\ LocalizeOff
  /\ SamplingOff
  /\ InitQueue /\ InitScans /\ RetryOff /\ SupervisorOff
  /\ InterpreterOff /\ CodecOff /\ ToolsOff

(* --------------------- Part A: SLAMJobQueue ---------------------------- *)
Offered == Range(enqOrder) \cup rejected


\* Mutant: enqueue without the shutdown check.
Enqueue_NoClosedCheck(j) ==
  /\ j \notin Offered
  /\ queue' = Append(queue, j)
  /\ enqOrder' = Append(enqOrder, j)
  /\ UNCHANGED rejected
  /\ UNCHANGED <<shutdown_flag, worker_task, cancelled, wpc, cur, idx,
                 last_binary, error_msg, status, errtext, writes, artifact,
                 faults, startOrder, doneCount, procOutcome, storeRaised,
                 spc, shutdownCalls, shutdownReturns, starts, startErrors>>
  /\ UNCHANGED nonQueue

\* enqueue(building_id, session_db_pairs): raises when the queue is shutting
\* down, else puts the job on the unbounded asyncio.Queue and returns.
Enqueue(j) ==
  /\ j \notin Offered
  /\ IF shutdown_flag
       THEN /\ rejected' = rejected \cup {j}
            /\ UNCHANGED <<queue, enqOrder>>
       ELSE /\ queue' = Append(queue, j)
            /\ enqOrder' = Append(enqOrder, j)
            /\ UNCHANGED rejected
  /\ UNCHANGED <<shutdown_flag, worker_task, cancelled, wpc, cur, idx,
                 last_binary, error_msg, status, errtext, writes, artifact,
                 faults, startOrder, doneCount, procOutcome, storeRaised,
                 spc, shutdownCalls, shutdownReturns, starts, startErrors>>
  /\ UNCHANGED nonQueue

\* Mutant: start_worker without the check of the task it holds.
start_worker_NoCheck ==
  /\ spc = "idle"
  /\ starts + startErrors < MaxStarts
  /\ worker_task' = "alive"
  /\ wpc' = "get"
  /\ starts' = starts + 1
  /\ UNCHANGED startErrors
  /\ UNCHANGED <<queue, shutdown_flag, cancelled, cur, idx, last_binary,
                 error_msg, status, errtext, writes, artifact, faults,
                 enqOrder, rejected, startOrder, doneCount, procOutcome,
                 storeRaised, spc, shutdownCalls, shutdownReturns>>
  /\ UNCHANGED nonQueue

\* start_worker(): raises while the task it holds is not done, else creates
\* the _worker_loop task.  The owner calls it outside shutdown().
start_worker ==
  /\ spc = "idle"
  /\ starts + startErrors < MaxStarts
  /\ IF worker_task = "alive"
       THEN /\ startErrors' = startErrors + 1
            /\ UNCHANGED <<worker_task, wpc, starts>>
       ELSE /\ worker_task' = "alive"
            /\ wpc' = "get"
            /\ starts' = starts + 1
            /\ UNCHANGED startErrors
  /\ UNCHANGED <<queue, shutdown_flag, cancelled, cur, idx, last_binary,
                 error_msg, status, errtext, writes, artifact, faults,
                 enqOrder, rejected, startOrder, doneCount, procOutcome,
                 storeRaised, spc, shutdownCalls, shutdownReturns>>
  /\ UNCHANGED nonQueue

Running == worker_task = "alive" /\ ~cancelled

\* building_id, session_db_pairs = await self.queue.get()
WorkerGet ==
  /\ Running /\ wpc = "get"
  /\ queue # <<>>
  /\ cur' = Head(queue)
  /\ queue' = Tail(queue)
  /\ startOrder' = Append(startOrder, Head(queue))
  /\ idx' = 1
  /\ last_binary' = "none"
  /\ wpc' = "mark_processing"
  /\ UNCHANGED <<shutdown_flag, worker_task, cancelled, error_msg, status,
                 errtext, writes, artifact, faults, enqOrder, rejected,
                 doneCount, procOutcome, storeRaised, spc, shutdownCalls,
                 shutdownReturns, starts, startErrors>>
  /\ UNCHANGED nonQueue

\* except Exception as e: error_msg = ...; the handler's loop starts over
\* session_db_pairs.
EnterHandler(msg) ==
  /\ error_msg' = msg
  /\ wpc' = "mark_failed"
  /\ idx' = 1

\* finally: self.queue.task_done(), then back to the top of `while True`.
TaskDone ==
  /\ doneCount' = [doneCount EXCEPT ![cur] = @ + 1]
  /\ cur' = 0
  /\ idx' = 0
  /\ error_msg' = ""
  /\ wpc' = "get"

\* for session_id, _ in session_db_pairs:
\*     await self.adapter.update_status(session_id, SCAN_STATUS_PROCESSING)
WorkerMarkProcessing ==
  /\ Running /\ wpc = "mark_processing"
  /\ \/ /\ update_status(<<cur, idx>>, SCAN_STATUS_PROCESSING, "")
        /\ IF idx < SessCount(cur)
             THEN idx' = idx + 1 /\ UNCHANGED wpc
             ELSE idx' = 1 /\ wpc' = "process"
        /\ UNCHANGED <<error_msg, faults, storeRaised, procOutcome>>
     \/ /\ StoreRaises
        /\ EnterHandler(StoreErrorText)
        /\ UNCHANGED procOutcome
  /\ UNCHANGED <<queue, shutdown_flag, worker_task, cancelled, cur,
                 last_binary, artifact, enqOrder, rejected, startOrder,
                 doneCount, spc, shutdownCalls, shutdownReturns, starts,
                 startErrors>>
  /\ UNCHANGED nonQueue

\* What _process_session does with one input database:
\*   "missing" src.exists() is false: FileNotFoundError
\*   "copyerr" shutil.copy2 raises
\*   "data"    parsed, map_binary is the non-empty file content
\*   "empty"   the input is a 0-byte file: parse_database returns its empty
\*             result and _load_map_file returns b""
Inputs == {"missing", "copyerr", "data", "empty"}

ProcessError(inp) ==
  IF inp = "missing" THEN FormatError("FileNotFoundError", "Input DB not found")
  ELSE FormatError("OSError", "")

\* result = await self._process_session(session_id, input_db_path)
WorkerProcess ==
  /\ Running /\ wpc = "process"
  /\ \E inp \in Inputs :
       IF inp \in {"missing", "copyerr"}
         THEN /\ EnterHandler(ProcessError(inp))
              /\ procOutcome' = [procOutcome EXCEPT ![cur] = "raised"]
              /\ UNCHANGED last_binary
         ELSE /\ last_binary' = inp
              /\ wpc' = "result"
              /\ UNCHANGED <<idx, error_msg, procOutcome>>
  /\ UNCHANGED <<queue, shutdown_flag, worker_task, cancelled, cur, status,
                 errtext, writes, artifact, faults, enqOrder, rejected,
                 startOrder, doneCount, storeRaised, spc, shutdownCalls,
                 shutdownReturns, starts, startErrors>>
  /\ UNCHANGED nonQueue

\* await self.adapter.update_processing_result(...); after the last session
\* the map is written when last_result['binary'] is non-empty, and the
\* completed loop begins.
WorkerResult ==
  /\ Running /\ wpc = "result"
  /\ \/ /\ idx < SessCount(cur)
        /\ idx' = idx + 1
        /\ wpc' = "process"
        /\ UNCHANGED <<error_msg, artifact, faults, storeRaised, procOutcome>>
     \/ /\ idx = SessCount(cur)
        /\ \E disk \in {"ok", "full"} :
             IF last_binary = "data" /\ disk = "full"
               THEN /\ EnterHandler(FormatError("OSError", "No space left on device"))
                    /\ procOutcome' = [procOutcome EXCEPT ![cur] = "raised"]
                    /\ UNCHANGED artifact
               ELSE /\ artifact' = IF last_binary = "data"
                                     THEN artifact \cup {cur} ELSE artifact
                    /\ idx' = 1
                    /\ wpc' = "mark_completed"
                    /\ procOutcome' = [procOutcome EXCEPT ![cur] = "ok"]
                    /\ UNCHANGED error_msg
        /\ UNCHANGED <<faults, storeRaised>>
     \/ /\ StoreRaises
        /\ EnterHandler(StoreErrorText)
        /\ UNCHANGED <<artifact, procOutcome>>
  /\ UNCHANGED <<queue, shutdown_flag, worker_task, cancelled, cur,
                 last_binary, status, errtext, writes, enqOrder, rejected,
                 startOrder, doneCount, spc, shutdownCalls, shutdownReturns,
                 starts, startErrors>>
  /\ UNCHANGED nonQueue

\* for session_id, _ in session_db_pairs:
\*     await self.adapter.update_status(session_id, SCAN_STATUS_COMPLETED)
\* and, after the last one, the finally clause.
WorkerMarkCompleted ==
  /\ Running /\ wpc = "mark_completed"
  /\ \/ /\ update_status(<<cur, idx>>, SCAN_STATUS_COMPLETED, "")
        /\ IF idx < SessCount(cur)
             THEN /\ idx' = idx + 1
                  /\ UNCHANGED <<wpc, cur, error_msg, doneCount>>
             ELSE TaskDone
        /\ UNCHANGED <<faults, storeRaised>>
     \/ /\ StoreRaises
        /\ EnterHandler(StoreErrorText)
        /\ UNCHANGED <<cur, doneCount>>
  /\ UNCHANGED <<queue, shutdown_flag, worker_task, cancelled, last_binary,
                 artifact, enqOrder, rejected, startOrder, procOutcome, spc,
                 shutdownCalls, shutdownReturns, starts, startErrors>>
  /\ UNCHANGED nonQueue

\* Mutant: a failed write that raises inside the handler ends the worker.
WorkerMarkFailed_FaultEndsLoop ==
  /\ Running /\ wpc = "mark_failed"
  /\ \/ /\ update_status(<<cur, idx>>, SCAN_STATUS_FAILED, error_msg)
        /\ IF idx < SessCount(cur)
             THEN /\ idx' = idx + 1
                  /\ UNCHANGED <<wpc, cur, error_msg, doneCount>>
             ELSE TaskDone
        /\ UNCHANGED <<faults, storeRaised, worker_task>>
     \/ /\ StoreRaises
        /\ doneCount' = [doneCount EXCEPT ![cur] = @ + 1]
        /\ cur' = 0 /\ idx' = 0 /\ error_msg' = ""
        /\ wpc' = "stopped"
        /\ worker_task' = "done"
  /\ UNCHANGED <<queue, shutdown_flag, cancelled, last_binary,
                 artifact, enqOrder, rejected, startOrder, procOutcome, spc,
                 shutdownCalls, shutdownReturns, starts, startErrors>>
  /\ UNCHANGED nonQueue

\* except Exception as e:
\*     for session_id, _ in session_db_pairs:
\*         await self.adapter.update_status(session_id, SCAN_STATUS_FAILED, error_msg)
\* A write that raises here leaves the handler through the finally clause and
\* is logged by the outer `except Exception`; the loop goes on.
WorkerMarkFailed ==
  /\ Running /\ wpc = "mark_failed"
  /\ \/ /\ update_status(<<cur, idx>>, SCAN_STATUS_FAILED, error_msg)
        /\ IF idx < SessCount(cur)
             THEN /\ idx' = idx + 1
                  /\ UNCHANGED <<wpc, cur, error_msg, doneCount>>
             ELSE TaskDone
        /\ UNCHANGED <<faults, storeRaised>>
     \/ /\ StoreRaises
        /\ TaskDone
  /\ UNCHANGED <<queue, shutdown_flag, worker_task, cancelled, last_binary,
                 artifact, enqOrder, rejected, startOrder, procOutcome, spc,
                 shutdownCalls, shutdownReturns, starts, startErrors>>
  /\ UNCHANGED nonQueue

\* CancelledError delivered at the await the task is suspended in: it is no
\* Exception, so the handler is skipped, the finally clause runs when a job
\* is held, and `except asyncio.CancelledError: break` ends the task.
WorkerCancelled ==
  /\ worker_task = "alive" /\ cancelled
  /\ cancelled' = FALSE
  /\ worker_task' = "done"
  /\ wpc' = "stopped"
  /\ doneCount' = IF cur # 0 THEN [doneCount EXCEPT ![cur] = @ + 1]
                  ELSE doneCount
  /\ cur' = 0
  /\ idx' = 0
  /\ error_msg' = ""
  /\ UNCHANGED <<queue, shutdown_flag, last_binary, status, errtext, writes,
                 artifact, faults, enqOrder, rejected, startOrder,
                 procOutcome, storeRaised, spc, shutdownCalls,
                 shutdownReturns, starts, startErrors>>
  /\ UNCHANGED nonQueue

\* shutdown(), up to its await: returns at once when the flag is already set
\* or no task is held, else sets the flag, cancels the task and awaits it.
ShutdownCall ==
  /\ spc = "idle"
  /\ shutdownCalls < MaxShutdownCalls
  /\ shutdownCalls' = shutdownCalls + 1
  /\ IF shutdown_flag
       THEN /\ shutdownReturns' = shutdownReturns + 1
            /\ UNCHANGED <<shutdown_flag, cancelled, spc>>
       ELSE /\ shutdown_flag' = TRUE
            /\ IF worker_task = "none"
                 THEN /\ shutdownReturns' = shutdownReturns + 1
                      /\ UNCHANGED <<cancelled, spc>>
                 ELSE /\ cancelled' = (worker_task = "alive")
                      /\ spc' = "awaiting"
                      /\ UNCHANGED shutdownReturns
  /\ UNCHANGED <<queue, worker_task, wpc, cur, idx, last_binary, error_msg,
                 status, errtext, writes, artifact, faults, enqOrder,
                 rejected, startOrder, doneCount, procOutcome, storeRaised,
                 starts, startErrors>>
  /\ UNCHANGED nonQueue


\* Mutant: shutdown() returns without awaiting the cancelled task.
ShutdownReturn_NoAwait ==
  /\ spc = "awaiting"
  /\ worker_task' = "none"
  /\ spc' = "idle"
  /\ shutdownReturns' = shutdownReturns + 1
  /\ UNCHANGED <<queue, shutdown_flag, cancelled, wpc, cur, idx, last_binary,
                 error_msg, status, errtext, writes, artifact, faults,
                 enqOrder, rejected, startOrder, doneCount, procOutcome,
                 storeRaised, shutdownCalls, starts, startErrors>>
  /\ UNCHANGED nonQueue

\* await self.worker_task completes once the task is done; then
\* self.worker_task = None and shutdown() returns.
ShutdownReturn ==
  /\ spc = "awaiting"
  /\ worker_task = "done"
  /\ worker_task' = "none"
  /\ spc' = "idle"
  /\ shutdownReturns' = shutdownReturns + 1
  /\ UNCHANGED <<queue, shutdown_flag, cancelled, wpc, cur, idx, last_binary,
                 error_msg, status, errtext, writes, artifact, faults,
                 enqOrder, rejected, startOrder, doneCount, procOutcome,
                 storeRaised, shutdownCalls, starts, startErrors>>
  /\ UNCHANGED nonQueue

NextQueue ==
  \/ \E j \in Jobs : Enqueue(j)
  \/ start_worker
  \/ WorkerGet
  \/ WorkerMarkProcessing
  \/ WorkerProcess
  \/ WorkerResult
  \/ WorkerMarkCompleted
  \/ WorkerMarkFailed
  \/ WorkerCancelled
  \/ ShutdownCall
  \/ ShutdownReturn

Next == NextQueue

Spec == Init /\ [][Next]_vars

(* ------------------------ claims on Part A ----------------------------- *)
Terminal == {SCAN_STATUS_COMPLETED, SCAN_STATUS_FAILED}
SessionsOf(j) == {s \in SessionIds : s[1] = j}
Drained == queue = <<>> /\ cur = 0 /\ starts > 0

(* C2: with no shutdown initiated, once the queue has drained every job
   whose processing raised is failed with a non-empty error description,
   every other job is completed, and the worker task is alive and waiting
   at queue.get().  (A job during which the status store itself raised is
   the subject of C32.) *)
C2_FailureIsolation ==
  (Drained /\ ~shutdown_flag) =>
    /\ worker_task = "alive" /\ wpc = "get"
    /\ \A j \in Range(enqOrder) :
         /\ doneCount[j] = 1
         /\ ~storeRaised[j] =>
              /\ procOutcome[j] \in {"ok", "raised"}
              /\ procOutcome[j] = "raised" =>
                   \A s \in SessionsOf(j) :
                     status[s] = SCAN_STATUS_FAILED /\ errtext[s] # ""
              /\ procOutcome[j] = "ok" =>
                   \A s \in SessionsOf(j) : status[s] = SCAN_STATUS_COMPLETED

C2_Witness ==
  /\ Drained /\ ~shutdown_flag /\ faults = 0
  /\ Len(startOrder) = NumJobs
  /\ procOutcome[startOrder[1]] = "raised"
  /\ procOutcome[startOrder[NumJobs]] = "ok"
  /\ status[<<startOrder[NumJobs], 1>>] = SCAN_STATUS_COMPLETED

(* C3: in_progress is written for a job before any of its processing runs,
   completed is written only after in_progress, and a session is completed
   only when the map artifact <building_id>.db of its job is persisted. *)
C3_CompletedHasArtifact ==
  /\ wpc \in {"process", "result"} =>
       \A s \in SessionsOf(cur) : status[s] = SCAN_STATUS_PROCESSING
  /\ \A s \in SessionIds :
       /\ SCAN_STATUS_COMPLETED \in Range(writes[s]) =>
            writes[s][1] = SCAN_STATUS_PROCESSING
       /\ status[s] = SCAN_STATUS_COMPLETED => s[1] \in artifact

(* C4: a job written as in_progress is always brought to completed or
   failed, also when shutdown() arrives while it is processed: with a
   healthy store, a worker that has ended leaves no session in_progress. *)
C4_InFlightJobFinishes ==
  (wpc = "stopped" /\ faults = 0) =>
    \A s \in SessionIds : status[s] # SCAN_STATUS_PROCESSING

(* C5: once shutdown has been initiated an enqueue call raises and leaves
   the queue unchanged; before that it appends the job at the tail and
   returns with the job not yet started and the worker untouched. *)
C5_EnqueueContract ==
  [][\A j \in Jobs :
       (j \notin Offered /\ j \in Offered') =>
         IF shutdown_flag
           THEN /\ j \in rejected'
                /\ queue' = queue
                /\ enqOrder' = enqOrder
           ELSE /\ j \notin rejected'
                /\ queue' = Append(queue, j)
                /\ j \notin Range(startOrder')
                /\ UNCHANGED <<wpc, cur, status, writes>>]_vars

C5_Witness ==
  /\ rejected # {}
  /\ enqOrder # <<>>
  /\ startOrder # <<>>

(* C6: jobs are started in the order their enqueue calls completed, and a
   job is started only when the job before it is completed or failed. *)
C6_FifoSequential ==
  /\ startOrder = SubSeq(enqOrder, 1, Len(startOrder))
  /\ faults = 0 =>
       \A k \in 1..(Len(startOrder) - 1) :
         \A s \in SessionsOf(startOrder[k]) : status[s] \in Terminal

(* C7: the first shutdown() sets the closed flag and cancels a live worker;
   it returns at once when no task is held and otherwise only after the
   worker task has stopped.  A shutdown() called with the flag already set
   returns without changing anything the queue holds. *)
C7_ShutdownContract ==
  [][/\ (shutdownCalls' = shutdownCalls + 1 /\ ~shutdown_flag) =>
          /\ shutdown_flag'
          /\ worker_task = "alive" => (cancelled' /\ spc' = "awaiting")
          /\ worker_task = "none" => shutdownReturns' = shutdownReturns + 1
     /\ (shutdownCalls' = shutdownCalls + 1 /\ shutdown_flag) =>
          /\ shutdownReturns' = shutdownReturns + 1
          /\ UNCHANGED <<queue, shutdown_flag, worker_task, cancelled, wpc,
                         cur, idx, status, errtext, writes, artifact,
                         enqOrder, rejected, startOrder, doneCount, spc>>
     /\ (spc = "awaiting" /\ spc' = "idle") =>
          /\ wpc = "stopped" /\ ~cancelled
          /\ shutdown_flag'
          /\ worker_task' = "none"]_vars

C7_Witness ==
  /\ shutdownCalls = 2 /\ shutdownReturns = 2
  /\ wpc = "stopped" /\ worker_task = "none"
  /\ startOrder # <<>>

(* ------------- Part B: finish_scan and process_slam_async -------------- *)
\* StorageManager.update_status: metadata["status"] = status
scan_update_status(s, st) == scanStatus' = [scanStatus EXCEPT ![s] = st]

\* POST /finish: marks the session queued and starts process_slam_async as a
\* background task of its own (asyncio.create_task), one per request.
finish_scan(s) ==
  /\ scanPc[s] = "idle"
  /\ scan_update_status(s, "queued")
  /\ scanPc' = [scanPc EXCEPT ![s] = "created"]
  /\ UNCHANGED nonScans

\* process_slam_async up to the engine call: status "processing", then
\* load_session_data, which raises for a session directory that is gone.
ScanTaskBegin(s) ==
  /\ scanPc[s] = "created"
  /\ \E loaded \in BOOLEAN :
       IF loaded
         THEN /\ scan_update_status(s, "processing")
              /\ scanPc' = [scanPc EXCEPT ![s] = "building"]
         ELSE /\ scan_update_status(s, "failed")
              /\ scanPc' = [scanPc EXCEPT ![s] = "done"]
  /\ UNCHANGED nonScans

\* slam_engine.process: intrinsics and build_database, then _run_reprocess
\* launches the rtabmap-reprocess child.
ScanReprocessStart(s) ==
  /\ scanPc[s] = "building"
  /\ \E built \in BOOLEAN :
       IF built
         THEN /\ scanPc' = [scanPc EXCEPT ![s] = "engine"]
              /\ UNCHANGED scanStatus
         ELSE /\ scan_update_status(s, "failed")
              /\ scanPc' = [scanPc EXCEPT ![s] = "done"]
  /\ UNCHANGED nonScans

\* The child ends (exit, failure or timeout); the rest of the pipeline, the
\* save_map call and the final status write follow.
ScanReprocessEnd(s) ==
  /\ scanPc[s] = "engine"
  /\ \E ok \in BOOLEAN :
       scan_update_status(s, IF ok THEN "completed" ELSE "failed")
  /\ scanPc' = [scanPc EXCEPT ![s] = "done"]
  /\ UNCHANGED nonScans

NextScans ==
  \/ \E s \in Scans : finish_scan(s)
  \/ \E s \in Scans : ScanTaskBegin(s)
  \/ \E s \in Scans : ScanReprocessStart(s)
  \/ \E s \in Scans : ScanReprocessEnd(s)

\* Runs of the external engine's map build that are in progress.
EngineRuns == {s \in Scans : scanPc[s] = "engine"}

NextSystem == NextQueue \/ NextScans

SpecSystem == Init /\ [][NextSystem]_vars

(* C1: at every moment at most one map-build run of the external engine is
   in progress, for any interleaving of enqueue calls and scan-finish
   requests. *)
C1_SingleBuild == Cardinality(EngineRuns) <= 1

(* -------- Part C: PostgresAdapter._retry_on_connection_error ----------- *)
max_retries == 3
BASE_DELAY_MS == 100

\* What one call of func does: return a value, raise a PostgresError or
\* ConnectionRefusedError, or raise anything else.
CallResults == {"ok", "transient", "other"}

\* delay = 0.1 * (2 ** attempt), in milliseconds
RECURSIVE Pow2(_)
Pow2(n) == IF n = 0 THEN 1 ELSE 2 * Pow2(n - 1)
Delay(a) == BASE_DELAY_MS * Pow2(a)

RetryStart ==
  /\ script \in [1..ScriptLen -> CallResults]
  /\ attempt = 0
  /\ rpc = "call"
  /\ calls = 0
  /\ sleeps = <<>>
  /\ rresult = "none"

\* Mutant: every exception is retried like a transient one.
RetryCall_RetryAll ==
  /\ rpc = "call"
  /\ calls < ScriptLen
  /\ calls' = calls + 1
  /\ LET r == script[calls + 1] IN
       CASE r = "ok" ->
              /\ rpc' = "returned"
              /\ rresult' = "value"
         [] OTHER ->
              IF attempt = max_retries - 1
                THEN /\ rpc' = "raised"
                     /\ rresult' = r
                ELSE /\ rpc' = "sleep"
                     /\ UNCHANGED rresult
  /\ UNCHANGED <<script, attempt, sleeps>>
  /\ UNCHANGED nonRetry

\* Mutant: the last failed attempt falls out of the loop instead of raising.
RetryCall_Swallow ==
  /\ rpc = "call"
  /\ calls < ScriptLen
  /\ calls' = calls + 1
  /\ LET r == script[calls + 1] IN
       CASE r = "ok" ->
              /\ rpc' = "returned"
              /\ rresult' = "value"
         [] r = "transient" ->
              IF attempt = max_retries - 1
                THEN /\ rpc' = "returned"
                     /\ rresult' = "None"
                ELSE /\ rpc' = "sleep"
                     /\ UNCHANGED rresult
         [] OTHER ->
              /\ rpc' = "raised"
              /\ rresult' = "other"
  /\ UNCHANGED <<script, attempt, sleeps>>
  /\ UNCHANGED nonRetry

\* for attempt in range(max_retries): try: return await func(...)
\* except (PostgresError, ConnectionRefusedError): raise on the last
\* attempt, else go on to the sleep.  Any other exception propagates.
RetryCall ==
  /\ rpc = "call"
  /\ calls < ScriptLen
  /\ calls' = calls + 1
  /\ LET r == script[calls + 1] IN
       CASE r = "ok" ->
              /\ rpc' = "returned"
              /\ rresult' = "value"
         [] r = "transient" ->
              IF attempt = max_retries - 1
                THEN /\ rpc' = "raised"
                     /\ rresult' = "transient"
                ELSE /\ rpc' = "sleep"
                     /\ UNCHANGED rresult
         [] OTHER ->
              /\ rpc' = "raised"
              /\ rresult' = "other"
  /\ UNCHANGED <<script, attempt, sleeps>>
  /\ UNCHANGED nonRetry

\* await asyncio.sleep(delay), then the next iteration of the for loop; a
\* loop that runs out returns None.
RetrySleep ==
  /\ rpc = "sleep"
  /\ sleeps' = Append(sleeps, Delay(attempt))
  /\ attempt' = attempt + 1
  /\ IF attempt + 1 < max_retries
       THEN rpc' = "call" /\ UNCHANGED rresult
       ELSE rpc' = "returned" /\ rresult' = "None"
  /\ UNCHANGED <<script, calls>>
  /\ UNCHANGED nonRetry

NextRetry == RetryCall \/ RetrySleep

InitRetry ==
  /\ LocalizeOff
  /\ SamplingOff
  /\ InitQueue /\ InitScans /\ SupervisorOff /\ InterpreterOff /\ CodecOff
  /\ ToolsOff
  /\ RetryStart

SpecRetry == InitRetry /\ [][NextRetry]_vars

RetryEnded == rpc \in {"returned", "raised"}
KeepsFailing == \A i \in 1..calls : script[i] = "transient"

(* C8: an operation that keeps failing with a transient error is retried
   3 times, after waits of 100 ms, 200 ms and 400 ms. *)
C8_ThreeRetriesBackoff ==
  (RetryEnded /\ KeepsFailing) =>
    /\ calls = 4
    /\ sleeps = <<100, 200, 400>>

(* C9: the wrapper returns only the result of a successful attempt and makes
   no attempt after it; when every attempt failed with a transient error
   the error is raised and nothing, None included, is returned. *)
C9_NoSwallowNoExtraCall ==
  /\ \A i \in 1..(calls - 1) : script[i] = "transient"
  /\ rpc = "returned" =>
       calls >= 1 /\ script[calls] = "ok" /\ rresult = "value"
  /\ (RetryEnded /\ KeepsFailing) =>
       rpc = "raised" /\ rresult = "transient"
  /\ (RetryEnded /\ calls >= 1 /\ script[calls] = "ok") => rpc = "returned"

C9_Witness ==
  /\ RetryEnded /\ KeepsFailing
  /\ calls = max_retries
  /\ rpc = "raised"

(* ---------- Part D: process supervisor of RTABMapEngine ---------------- *)
SLAM_TIMEOUT_SECONDS == 600
LOCALIZE_TIMEOUT_SECONDS == 30

\* timeout= of the asyncio.wait_for around the child, per operation kind
Budget(k) ==
  IF k = "build" THEN SLAM_TIMEOUT_SECONDS ELSE LOCALIZE_TIMEOUT_SECONDS

\* Time is observed in steps of a third of the short budget.
TickSeconds == LOCALIZE_TIMEOUT_SECONDS \div 3

Min(a, b) == IF a < b THEN a ELSE b

\* A child writes up to one unit more than a pipe buffers.
MaxOutput == PipeCapacity + 1

\* The kill of the except asyncio.TimeoutError branch: pkill -9 by name
\* inside the container in Docker mode, process.kill() otherwise.
ForcedKill(docker, k) ==
  IF docker
    THEN <<"docker exec pkill -9 -f",
           IF k = "build" THEN "rtabmap-reprocess" ELSE "rtabmap-console">>
    ELSE <<"process.kill">>

\* Text of n units of stderr output ("" when the child wrote nothing).
ErrText(n) == IF n = 0 THEN "" ELSE "stderr x" \o ToString(n)

SupervisorStart ==
  /\ kind \in {"build", "localize"}
  /\ use_docker \in BOOLEAN
  /\ ppc = "idle"
  /\ clock = 0
  /\ child = "none"
  /\ returncode = -1
  /\ kills = <<>>
  /\ outcome = "none"
  /\ out_todo \in 0..MaxOutput
  /\ err_todo \in 0..MaxOutput
  /\ out_pipe = 0 /\ err_pipe = 0
  /\ err_read = 0
  /\ reaped = FALSE
  /\ message = <<>>
  /\ has_hook \in (IF kind = "build" THEN BOOLEAN ELSE {FALSE})
  /\ monitor_task = "none"
  /\ processed = 0
  /\ progress = <<>>
  /\ output_db = FALSE

\* The command line is assembled for the transport (direct argument vector
\* or `docker exec <container> bash -c "<joined>"`).
Invoke ==
  /\ ppc = "idle"
  /\ ppc' = "launching"
  /\ UNCHANGED <<kind, use_docker, clock, child, returncode, kills, outcome,
                 pipes, reaped, message>>
  /\ UNCHANGED <<monitoring, output_db>>
  /\ UNCHANGED nonSupervisor

\* asyncio.create_subprocess_exec with stdout=PIPE and stderr=PIPE:
\* FileNotFoundError when the program is absent ("... not found"), else the
\* child runs, a build creates its monitor_output task, and the wait begins.
Launch ==
  /\ ppc = "launching"
  /\ \E found \in BOOLEAN :
       IF found
         THEN /\ child' = "running"
              /\ ppc' = "running"
              /\ monitor_task' = IF kind = "build" THEN "reading" ELSE "none"
              /\ UNCHANGED <<outcome, message>>
         ELSE /\ outcome' = "EngineFailure"
              /\ message' = IF kind = "build"
                              THEN <<"rtabmap-reprocess not found">>
                              ELSE <<"rtabmap-console not found">>
              /\ ppc' = "ended"
              /\ UNCHANGED <<child, monitor_task>>
  /\ UNCHANGED <<kind, use_docker, clock, returncode, kills, pipes, reaped>>
  /\ UNCHANGED <<has_hook, processed, progress, output_db>>
  /\ UNCHANGED nonSupervisor

\* Time passes while the supervisor waits.
Tick ==
  /\ ppc = "running"
  /\ clock < Budget(kind)
  /\ clock' = Min(clock + TickSeconds, Budget(kind))
  /\ UNCHANGED <<kind, use_docker, ppc, child, returncode, kills, outcome,
                 pipes, reaped, message>>
  /\ UNCHANGED <<monitoring, output_db>>
  /\ UNCHANGED nonSupervisor

\* The child writes one unit to stdout; the write blocks while the pipe
\* buffer is full.
ChildWriteStdout ==
  /\ child = "running"
  /\ out_todo > 0 /\ out_pipe < PipeCapacity
  /\ out_todo' = out_todo - 1
  /\ out_pipe' = out_pipe + 1
  /\ UNCHANGED <<kind, use_docker, ppc, clock, child, returncode, kills,
                 outcome, err_todo, err_pipe, err_read, reaped, message>>
  /\ UNCHANGED <<monitoring, output_db>>
  /\ UNCHANGED nonSupervisor

\* The child writes one unit to stderr; the write blocks while the pipe
\* buffer is full.
ChildWriteStderr ==
  /\ child = "running"
  /\ err_todo > 0 /\ err_pipe < PipeCapacity
  /\ err_todo' = err_todo - 1
  /\ err_pipe' = err_pipe + 1
  /\ UNCHANGED <<kind, use_docker, ppc, clock, child, returncode, kills,
                 outcome, out_todo, out_pipe, err_read, reaped, message>>
  /\ UNCHANGED <<monitoring, output_db>>
  /\ UNCHANGED nonSupervisor

\* monitor_output delivers a marker-derived percentage only
\* `if progress_callback and total_images > 0`.
HookDue(callback, total_images) == callback /\ total_images > 0

\* min(30 + processed / total_images * 55, 85), in whole percent.
MarkerPercent(count, total_images) ==
  Min(30 + (count * 55) \div total_images, 85)

\* One line of stdout is read: by communicate() while a localization
\* waits; in a build by the monitor_output task for as long as that task
\* lives (`async for line in process.stdout`).  A line with a progress
\* marker is counted; total_images is set to 0 and never assigned again.
DrainStdout ==
  /\ IF kind = "build" THEN monitor_task = "reading" ELSE ppc = "running"
  /\ out_pipe > 0
  /\ out_pipe' = out_pipe - 1
  /\ \E marker \in BOOLEAN :
       LET total_images == 0
           count == IF marker /\ kind = "build" THEN processed + 1
                                                ELSE processed
       IN /\ processed' = count
          /\ progress' =
               IF marker /\ kind = "build" /\ HookDue(has_hook, total_images)
                 THEN Append(progress, MarkerPercent(count, total_images))
                 ELSE progress
  /\ UNCHANGED <<kind, use_docker, ppc, clock, child, returncode, kills,
                 outcome, out_todo, err_todo, err_pipe, err_read, reaped,
                 message>>
  /\ UNCHANGED <<has_hook, monitor_task, output_db>>
  /\ UNCHANGED nonSupervisor

\* monitor_output reaches the end of stdout once the child is gone and the
\* pipe is empty, and the task finishes.
MonitorEnds ==
  /\ monitor_task = "reading"
  /\ child \in {"exited", "killed"}
  /\ out_pipe = 0
  /\ monitor_task' = "finished"
  /\ UNCHANGED <<kind, use_docker, ppc, clock, child, returncode, kills,
                 outcome, pipes, reaped, message>>
  /\ UNCHANGED <<has_hook, processed, progress, output_db>>
  /\ UNCHANGED nonSupervisor

\* stderr is read while the supervisor waits only by communicate(), that
\* is in a localization; _run_reprocess has no reader of process.stderr
\* before the child has exited.
DrainStderr ==
  /\ ppc = "running"
  /\ kind = "localize"
  /\ err_pipe > 0
  /\ err_pipe' = err_pipe - 1
  /\ err_read' = err_read + 1
  /\ UNCHANGED <<kind, use_docker, ppc, clock, child, returncode, kills,
                 outcome, out_todo, err_todo, out_pipe, reaped, message>>
  /\ UNCHANGED <<monitoring, output_db>>
  /\ UNCHANGED nonSupervisor

\* The child exits by itself, before the budget has elapsed, once it has
\* written all its output; a build child has or has not written its output
\* database.
ChildExit ==
  /\ ppc = "running" /\ child = "running"
  /\ clock < Budget(kind)
  /\ out_todo = 0 /\ err_todo = 0
  /\ \E code \in {0, 1} : returncode' = code
  /\ output_db' \in (IF kind = "build" THEN BOOLEAN ELSE {FALSE})
  /\ child' = "exited"
  /\ UNCHANGED monitoring
  /\ UNCHANGED <<kind, use_docker, ppc, clock, kills, outcome, pipes, reaped,
                 message>>
  /\ UNCHANGED nonSupervisor

\* Mutant: the exit status of a killed child is never collected.
Reap_ExitedOnly ==
  /\ child = "exited" /\ ~reaped
  /\ reaped' = TRUE
  /\ UNCHANGED <<kind, use_docker, ppc, clock, child, returncode, kills,
                 outcome, pipes, message>>
  /\ UNCHANGED <<monitoring, output_db>>
  /\ UNCHANGED nonSupervisor

\* The event loop's child watcher collects the exit status of a child that
\* has exited or was killed (this is what completes process.wait()).
Reap ==
  /\ child \in {"exited", "killed"} /\ ~reaped
  /\ reaped' = TRUE
  /\ UNCHANGED <<kind, use_docker, ppc, clock, child, returncode, kills,
                 outcome, pipes, message>>
  /\ UNCHANGED <<monitoring, output_db>>
  /\ UNCHANGED nonSupervisor

\* Parts of the message of the error raised for a non-zero return code.
\* Build: Exception("rtabmap-reprocess failed (code: N)"), wrapped by the
\* outer handler; the stderr text that was read is only printed.
\* Localization: ValueError("RTABMap processing failed: <stderr>").
ExitErrorMessage(k, code, stderr_text) ==
  IF k = "build"
    THEN <<"rtabmap-reprocess failed: ",
           "rtabmap-reprocess failed (code: ", ToString(code), ")">>
    ELSE <<"RTABMap processing failed: ", stderr_text>>

\* wait_for returned (the exit status was collected; communicate() has also
\* read both streams to their end): a build cancels its monitor task; a
\* non-zero return code raises the failure error, after
\* `await process.stderr.read()` in a build; a build also fails when the
\* output database does not exist.
ObserveExit ==
  /\ ppc = "running" /\ child = "exited" /\ reaped
  /\ out_pipe' = IF kind = "localize" THEN 0 ELSE out_pipe
  /\ err_pipe' = IF kind = "localize" \/ returncode # 0 THEN 0 ELSE err_pipe
  /\ err_read' = IF kind = "localize" \/ returncode # 0
                   THEN err_read + err_pipe ELSE err_read
  /\ monitor_task' = IF monitor_task = "reading" THEN "cancelled"
                                                  ELSE monitor_task
  /\ IF returncode # 0
       THEN /\ outcome' = "EngineFailure"
            /\ message' = ExitErrorMessage(kind, returncode,
                                           ErrText(err_read'))
       ELSE IF kind = "build" /\ ~output_db
         THEN /\ outcome' = "EngineFailure"
              /\ message' = <<"rtabmap-reprocess failed: ",
                              "Output database not created: ", "output_db">>
         ELSE /\ outcome' = "Completed"
              /\ UNCHANGED message
  /\ ppc' = "ended"
  /\ UNCHANGED <<has_hook, processed, progress, output_db>>
  /\ UNCHANGED <<kind, use_docker, clock, child, returncode, kills,
                 out_todo, err_todo, reaped>>
  /\ UNCHANGED nonSupervisor

\* Message of the timeout error of each operation.
TimeoutMessage(k) ==
  IF k = "build"
    THEN <<"rtabmap-reprocess timeout (", ToString(SLAM_TIMEOUT_SECONDS),
           "s)">>
    ELSE <<"RTABMap relocalization timeout (exceeded 30 seconds)">>

\* Mutant: the timeout branch raises without killing the child.
TimeoutExpires_NoKill ==
  /\ ppc = "running" /\ child = "running"
  /\ clock = Budget(kind)
  /\ outcome' = "Timeout"
  /\ message' = TimeoutMessage(kind)
  /\ ppc' = "ended"
  /\ UNCHANGED <<kind, use_docker, clock, child, returncode, kills, pipes,
                 reaped>>
  /\ UNCHANGED <<monitoring, output_db>>
  /\ UNCHANGED nonSupervisor

\* except asyncio.TimeoutError: kill through the transport, then raise the
\* timeout error, which the outer handlers re-raise unchanged (the build's
\* message contains "timeout"; localize raises TimeoutError).  Neither
\* branch awaits process.wait() after the kill.
TimeoutExpires ==
  /\ ppc = "running" /\ child = "running"
  /\ clock = Budget(kind)
  /\ kills' = Append(kills, ForcedKill(use_docker, kind))
  /\ child' = "killed"
  /\ outcome' = "Timeout"
  /\ message' = TimeoutMessage(kind)
  /\ ppc' = "ended"
  /\ UNCHANGED <<kind, use_docker, clock, returncode, pipes, reaped>>
  /\ UNCHANGED <<monitoring, output_db>>
  /\ UNCHANGED nonSupervisor

NextSupervisor ==
  \/ Invoke
  \/ Launch
  \/ Tick
  \/ ChildWriteStdout
  \/ ChildWriteStderr
  \/ DrainStdout
  \/ MonitorEnds
  \/ DrainStderr
  \/ ChildExit
  \/ Reap
  \/ ObserveExit
  \/ TimeoutExpires

InitSupervisor ==
  /\ LocalizeOff
  /\ SamplingOff
  /\ InitQueue /\ InitScans /\ RetryOff /\ InterpreterOff /\ CodecOff
  /\ ToolsOff
  /\ SupervisorStart

SpecSupervisor == InitSupervisor /\ [][NextSupervisor]_vars

(* C10: for a build and for a localization, a child that has not exited
   when its budget (600 s, 30 s) has elapsed is force-killed through the
   active transport and the invocation ends with Timeout, never Completed
   or EngineFailure; no timeout is raised earlier than the budget. *)
C10_TimeoutKills ==
  LET budget == IF kind = "build" THEN 600 ELSE 30 IN
  /\ (ppc = "ended" /\ returncode = -1 /\ clock >= budget) =>
       /\ outcome = "Timeout"
       /\ child = "killed"
       /\ kills = << IF use_docker
                       THEN <<"docker exec pkill -9 -f",
                              IF kind = "build" THEN "rtabmap-reprocess"
                              ELSE "rtabmap-console">>
                       ELSE <<"process.kill">> >>
  /\ outcome = "Timeout" => (clock = budget /\ returncode = -1)
  /\ (ppc = "running" /\ child = "running") => clock <= budget

C10_Witness ==
  /\ kind = "localize" /\ use_docker
  /\ outcome = "Timeout"
  /\ kills # <<>>

(* C11: while a build is running, both stdout and stderr of the child are
   read concurrently with the wait for its exit: whenever the child is
   blocked writing to a full pipe, a reader of that pipe is active, so the
   child is never stalled by undrained output. *)
C11_BothStreamsDrained ==
  (kind = "build" /\ ppc = "running" /\ child = "running") =>
    /\ (out_todo > 0 /\ out_pipe = PipeCapacity) => ENABLED DrainStdout
    /\ (err_todo > 0 /\ err_pipe = PipeCapacity) => ENABLED DrainStderr

(* C12: when the child of a build or of a localization exits with a
   non-zero code before the timeout, the error that is raised carries the
   text the child wrote to stderr. *)
C12_FailureCarriesStderr ==
  (ppc = "ended" /\ child = "exited" /\ returncode # 0
     /\ err_read + err_pipe > 0) =>
    /\ outcome = "EngineFailure"
    /\ ErrText(err_read + err_pipe) \in Range(message)

\* The supervisor with a child watcher that keeps running.
SpecSupervisorLive ==
  InitSupervisor /\ [][NextSupervisor]_vars /\ WF_vars(Reap)

BuildTimedOut == kind = "build" /\ outcome = "Timeout"

(* C13 (amended): after a build ends with Timeout, in direct and in
   container mode, the child has been killed (it is not running any more)
   and its exit status is eventually collected, so that no zombie remains;
   the collection may happen after the invocation has ended. *)
C13_TimeoutChildReaped ==
  /\ [](BuildTimedOut => child = "killed")
  /\ BuildTimedOut ~> reaped

C13_Witness ==
  /\ BuildTimedOut /\ use_docker
  /\ child = "killed" /\ reaped

(* C13 (as stated): once a build has ended with Timeout its child has been
   terminated and reaped. *)
C13_ReapedAtTimeout ==
  BuildTimedOut => (child = "killed" /\ reaped)

(* ------- Part E: interpretation of the localization output ------------- *)
POSE_BLOB_BYTES == 48

NodeIds == {7, 12}
Hyps == {-1000, 400, 920}        \* hyp(-1.0), hyp(0.40), hyp(0.92)

\* A line of stdout matches loop_pattern, or high_pattern, or neither.
LineSet ==
  {[t |-> "other", id |-> 0, hyp |-> 0]} \cup
  [t : {"loop", "high"}, id : NodeIds, hyp : Hyps]

\* What `SELECT id, pose FROM Node WHERE id = ?` can fetch for a node id.
RowsOf(n) ==
  {[id |-> n, pose |-> "missing", len |-> 0],
   [id |-> n, pose |-> "null", len |-> 0]} \cup
  [id : {n}, pose : {"blob"},
   len : {0, POSE_BLOB_BYTES - 1, POSE_BLOB_BYTES, POSE_BLOB_BYTES + 1}]

InterpreterStart ==
  /\ lines \in UNION {[1..n -> LineSet] : n \in 0..MaxLines}
  /\ lpc = "parse"
  /\ li = 1
  /\ matched_node_id = 0
  /\ best_hypothesis = NO_HYPOTHESIS
  /\ lookups = <<>>
  /\ row = NoRow
  /\ lresult = NoResult

\* One iteration of `for line in stdout_str.split('\n')`.
ParseLine ==
  /\ lpc = "parse" /\ li <= Len(lines)
  /\ LET ln == lines[li]
         considered == \/ ln.t = "loop"
                       \/ ln.t = "high" /\ matched_node_id = 0
     IN IF considered /\ ln.hyp > best_hypothesis
          THEN /\ best_hypothesis' = ln.hyp
               /\ matched_node_id' = ln.id
          ELSE UNCHANGED <<best_hypothesis, matched_node_id>>
  /\ li' = li + 1
  /\ UNCHANGED <<lines, lpc, lookups, row, lresult>>
  /\ UNCHANGED nonInterpreter

\* Mutant: the pose lookup is attempted although nothing matched.
ParseEnd_NoCheck ==
  /\ lpc = "parse" /\ li > Len(lines)
  /\ lpc' = "lookup"
  /\ UNCHANGED <<lines, li, matched_node_id, best_hypothesis, lookups, row,
                 lresult>>
  /\ UNCHANGED nonInterpreter

\* After the loop: `if matched_node_id is None: raise ValueError(...)`.
ParseEnd ==
  /\ lpc = "parse" /\ li > Len(lines)
  /\ IF matched_node_id = 0
       THEN /\ lpc' = "done"
            /\ lresult' = [NoResult EXCEPT !.kind = "NoMatch"]
       ELSE /\ lpc' = "lookup"
            /\ UNCHANGED lresult
  /\ UNCHANGED <<lines, li, matched_node_id, best_hypothesis, lookups, row>>
  /\ UNCHANGED nonInterpreter

\* Mutant: a blob of at least 48 bytes is decoded.
Decodable_AtLeast(r) == r.pose = "blob" /\ r.len >= POSE_BLOB_BYTES

\* _extract_node_pose returns None for `not row or not row[1]` and for
\* `len(pose_blob) != 48`; a 48-byte blob is unpacked as 12 floats.
Decodable(r) == r.pose = "blob" /\ r.len = POSE_BLOB_BYTES

\* The 7-element pose computed from the 3x4 matrix of the row.
DecodePose(r) == <<"pose of node", r.id>>

Max(a, b) == IF a > b THEN a ELSE b

\* Mutant: the confidence is not clamped.
Confidence_Unclamped(h) == (h + 1000) \div 2

\* confidence = min(0.9, max(0.1, (best_hypothesis + 1.0) / 2.0)), in
\* thousandths.
Confidence(h) == Min(900, Max(100, (h + 1000) \div 2))

\* pose = self._extract_node_pose(map_path, matched_node_id); None raises
\* ValueError("Failed to extract pose ..."), else the result is returned.
ExtractPose ==
  /\ lpc = "lookup"
  /\ lookups' = Append(lookups, <<"map_path", matched_node_id>>)
  /\ \E r \in RowsOf(matched_node_id) :
       /\ row' = r
       /\ lresult' = IF Decodable(r)
                       THEN [kind |-> "ok", pose |-> DecodePose(r),
                             confidence |-> Confidence(best_hypothesis)]
                       ELSE [NoResult EXCEPT !.kind = "PoseError"]
  /\ lpc' = "done"
  /\ UNCHANGED <<lines, li, matched_node_id, best_hypothesis>>
  /\ UNCHANGED nonInterpreter

NextInterpreter == ParseLine \/ ParseEnd \/ ExtractPose

InitInterpreter ==
  /\ LocalizeOff
  /\ SamplingOff
  /\ InitQueue /\ InitScans /\ RetryOff /\ SupervisorOff /\ CodecOff
  /\ ToolsOff
  /\ InterpreterStart

SpecInterpreter == InitInterpreter /\ [][NextInterpreter]_vars

LoopLines == {i \in DOMAIN lines : lines[i].t = "loop"}
HighLines == {i \in DOMAIN lines : lines[i].t = "high"}
Parsed == lpc \in {"lookup", "done"}

\* Line i is a match of maximum hypothesis among the lines S.
MaxOf(i, S) == i \in S /\ \A j \in S : lines[j].hyp <= lines[i].hyp

(* C14: when the output has at least one accepted-loop line, the selected
   node is that of an accepted-loop line of maximum hypothesis, whatever
   `high` lines there are. *)
C14_LoopMaxSelected ==
  (Parsed /\ LoopLines # {}) =>
    \E i \in LoopLines : MaxOf(i, LoopLines) /\ matched_node_id = lines[i].id

(* C15: when the output has no accepted-loop line and at least one `high`
   line, the selected node is that of a `high` line of maximum hypothesis
   over all `high` lines. *)
C15_HighMaxSelected ==
  (Parsed /\ LoopLines = {} /\ HighLines # {}) =>
    \E i \in HighLines : MaxOf(i, HighLines) /\ matched_node_id = lines[i].id

(* C16: when no line of the output has either marker shape, localization
   fails with NoMatch: no pose and no confidence are returned and the
   reference pose is never looked up. *)
C16_NoMarkerNoMatch ==
  (LoopLines = {} /\ HighLines = {}) =>
    /\ lpc # "lookup"
    /\ lookups = <<>>
    /\ lpc = "done" =>
         /\ lresult.kind = "NoMatch"
         /\ lresult.pose = <<>>
         /\ lresult.confidence = -1

C16_Witness ==
  /\ Len(lines) >= 2
  /\ LoopLines = {} /\ HighLines = {}
  /\ lpc = "done" /\ lresult.kind = "NoMatch"

(* C17: the confidence of a successful localization is
   clamp((h + 1) / 2, 0.1, 0.9) for the hypothesis h of the selected match,
   so it lies in [0.1, 0.9] and is neither 0 nor 1. *)
C17_ConfidenceClamped ==
  lresult.kind = "ok" =>
    \E i \in LoopLines \cup HighLines :
      LET h == lines[i].hyp
          mid == (h + 1000) \div 2
      IN /\ lines[i].id = matched_node_id
         /\ h = best_hypothesis
         /\ lresult.confidence =
              (IF mid < 100 THEN 100 ELSE IF mid > 900 THEN 900 ELSE mid)
         /\ lresult.confidence >= 100 /\ lresult.confidence <= 900

C17_Witness ==
  /\ lresult.kind = "ok"
  /\ best_hypothesis = -1000
  /\ lresult.confidence = 100

(* C18: the returned pose is decoded from the Node row of the matched id in
   the existing map database; a missing row, a null pose or a pose blob
   that is not 48 bytes long makes localization fail, with no pose. *)
C18_PoseFromMatchedRow ==
  (lpc = "done" /\ lookups # <<>>) =>
    /\ lookups = << <<"map_path", matched_node_id>> >>
    /\ row.id = matched_node_id
    /\ IF row.pose = "blob" /\ row.len = 48
         THEN lresult.kind = "ok" /\ lresult.pose = <<"pose of node", row.id>>
         ELSE lresult.kind = "PoseError" /\ lresult.pose = <<>>

C18_Witness ==
  /\ lpc = "done" /\ lresult.kind = "PoseError"
  /\ row.pose = "blob" /\ row.len = 49

(* ----------- Part F: build_database (rtabmap/db_builder.py) ------------ *)
Frames == 1..MaxFrames            \* image file names, by their stems
DepthKinds == {"missing", "empty", "zero", "valid"}

RECURSIVE SortedSeq(_)
\* sorted(...) of distinct names: the ascending sequence of the set S.
SortedSeq(S) ==
  IF S = {} THEN <<>>
  ELSE LET mn == CHOOSE x \in S : \A y \in S : x <= y
       IN <<mn>> \o SortedSeq(S \ {mn})

\* Directory listings: the names of a directory, without order.
Listings ==
  {s \in UNION {[1..n -> Frames] : n \in 0..MaxFrames} :
     \A i, j \in DOMAIN s : i # j => s[i] # s[j]}

\* load_and_resize_depth returns None for a missing file, for an image that
\* cannot be read or is empty, and for an all-zero image.
DepthLoaded(kindOfDepth) == kindOfDepth = "valid"

BuilderStart ==
  /\ listing \in Listings
  /\ depth \in [Range(listing) -> DepthKinds]
  /\ monocular \in BOOLEAN
  /\ bpc = "list"
  /\ image_files = <<>>
  /\ bi = 1
  /\ node_id = 0
  /\ skipped = 0
  /\ visited = <<>>
  /\ node_rows = <<>>

\* image_files = sorted([f for f in os.listdir(images_dir) if ...])
ListImages ==
  /\ bpc = "list"
  /\ image_files' = SortedSeq(Range(listing))
  /\ bpc' = "frames"
  /\ UNCHANGED <<listing, depth, monocular, bi, node_id, skipped, visited,
                 node_rows>>
  /\ UNCHANGED nonBuilder

\* Mutant: the node id is incremented before the depth check.
BuildFrame_IdBeforeSkip ==
  /\ bpc = "frames" /\ bi <= Len(image_files)
  /\ LET f == image_files[bi] IN
       /\ visited' = Append(visited, f)
       /\ node_id' = node_id + 1
       /\ IF ~monocular /\ ~DepthLoaded(depth[f])
            THEN /\ skipped' = skipped + 1
                 /\ UNCHANGED node_rows
            ELSE /\ node_rows' = Append(node_rows, <<node_id + 1, f>>)
                 /\ UNCHANGED skipped
  /\ bi' = bi + 1
  /\ UNCHANGED <<listing, depth, monocular, bpc, image_files>>
  /\ UNCHANGED nonBuilder

\* One iteration of `for img_file in image_files`: a frame without usable
\* depth is skipped before node_id is incremented (non-monocular only);
\* otherwise the Node and Data rows of the next id are inserted.
BuildFrame ==
  /\ bpc = "frames" /\ bi <= Len(image_files)
  /\ LET f == image_files[bi] IN
       /\ visited' = Append(visited, f)
       /\ IF ~monocular /\ ~DepthLoaded(depth[f])
            THEN /\ skipped' = skipped + 1
                 /\ UNCHANGED <<node_id, node_rows>>
            ELSE /\ node_id' = node_id + 1
                 /\ node_rows' = Append(node_rows, <<node_id + 1, f>>)
                 /\ UNCHANGED skipped
  /\ bi' = bi + 1
  /\ UNCHANGED <<listing, depth, monocular, bpc, image_files>>
  /\ UNCHANGED nonBuilder

\* After the loop: the Info row is inserted and the database is committed.
BuildFinish ==
  /\ bpc = "frames" /\ bi > Len(image_files)
  /\ bpc' = "done"
  /\ UNCHANGED <<listing, depth, monocular, image_files, bi, node_id,
                 skipped, visited, node_rows>>
  /\ UNCHANGED nonBuilder

(* --------- Part G: parse_database (rtabmap/database_parser.py) --------- *)
NULL_POSE == -1
BlobLengths ==
  {NULL_POSE, 0, POSE_BLOB_BYTES - 1, POSE_BLOB_BYTES, POSE_BLOB_BYTES + 1}

NodeTables == UNION {[S -> BlobLengths] : S \in SUBSET (1..MaxRows)}

\* `if pose_blob:` and _parse_pose_blob: a NULL or empty blob and a blob
\* shorter than 48 bytes give no pose; otherwise blob[:48] is unpacked.
ParsesPose(len) == len > 0 /\ ~(len < POSE_BLOB_BYTES)

\* The first n elements of s (LIMIT n).
Take(s, n) == SubSeq(s, 1, Min(n, Len(s)))

\* What db_path can hold: no file, a file that is not an SQLite database,
\* a database without the expected tables, one that has Node but no Link
\* table, and a map database.
DbFiles == {"missing", "not_a_database", "no_tables", "no_link", "ok"}
HasNodeTable(f) == f \in {"no_link", "ok"}

ParserStart ==
  /\ db_file \in DbFiles
  /\ node_table \in (IF HasNodeTable(db_file) THEN NodeTables ELSE {<<>>})
  /\ keyframe_limit \in {0, 2}
  /\ gpc = "open"
  /\ fetched = <<>>
  /\ gi = 1
  /\ keyframes = <<>>
  /\ num_keyframes = -1
  /\ num_map_points = -1
  /\ loop_closures = -1
  /\ parse_error = ""

\* `if not Path(db_path).exists(): return {...}`: the empty result, without
\* an 'error' key.
ParseOpen ==
  /\ gpc = "open"
  /\ IF db_file = "missing"
       THEN /\ gpc' = "done"
            /\ num_keyframes' = 0
            /\ num_map_points' = 0
            /\ loop_closures' = 0
       ELSE /\ gpc' = "count"
            /\ UNCHANGED <<num_keyframes, num_map_points, loop_closures>>
  /\ UNCHANGED <<node_table, keyframe_limit, fetched, gi, keyframes, db_file,
                 parse_error>>
  /\ UNCHANGED nonParser

\* Mutant: the database error propagates to the caller.
ParseFailed_Raise(msg) ==
  /\ gpc' = "raised"
  /\ parse_error' = msg
  /\ UNCHANGED <<num_keyframes, num_map_points, loop_closures, keyframes>>

\* `except Exception as e`: the all-zero result with 'error': str(e).
ParseFailed(msg) ==
  /\ gpc' = "done"
  /\ num_keyframes' = 0
  /\ num_map_points' = 0
  /\ loop_closures' = 0
  /\ keyframes' = <<>>
  /\ parse_error' = msg

\* The sqlite3 error of the three COUNT(*) queries, if any.
CountError(f) ==
  CASE f = "not_a_database" -> "file is not a database"
    [] f = "no_tables" -> "no such table: Node"
    [] f = "no_link" -> "no such table: Link"
    [] OTHER -> ""

\* SELECT COUNT(*) FROM Node, FROM Link WHERE type=2 and FROM Feature, then
\* the query "SELECT id, pose, stamp FROM Node ORDER BY id"
\* [LIMIT keyframe_limit].
ParseCount ==
  /\ gpc = "count"
  /\ IF CountError(db_file) # ""
       THEN /\ ParseFailed(CountError(db_file))
            /\ UNCHANGED fetched
       ELSE /\ num_keyframes' = Cardinality(DOMAIN node_table)
            /\ \E loops \in 0..1 : loop_closures' = loops
            /\ \E features \in 0..1 : num_map_points' = features
            /\ fetched' =
                 LET ordered == SortedSeq(DOMAIN node_table)
                 IN IF keyframe_limit > 0 THEN Take(ordered, keyframe_limit)
                    ELSE ordered
            /\ gpc' = "rows"
            /\ UNCHANGED <<keyframes, parse_error>>
  /\ UNCHANGED <<node_table, keyframe_limit, gi, db_file>>
  /\ UNCHANGED nonParser

\* One iteration of `for node_id, pose_blob, timestamp in fetchall()`.
ParseRow ==
  /\ gpc = "rows" /\ gi <= Len(fetched)
  /\ keyframes' = IF ParsesPose(node_table[fetched[gi]])
                    THEN Append(keyframes, fetched[gi])
                    ELSE keyframes
  /\ gi' = gi + 1
  /\ UNCHANGED <<node_table, keyframe_limit, gpc, fetched, num_keyframes,
                 db_file, num_map_points, loop_closures, parse_error>>
  /\ UNCHANGED nonParser

\* The result dictionary is returned.
ParseReturn ==
  /\ gpc = "rows" /\ gi > Len(fetched)
  /\ gpc' = "done"
  /\ UNCHANGED <<node_table, keyframe_limit, fetched, gi, keyframes,
                 num_keyframes, db_file, num_map_points, loop_closures,
                 parse_error>>
  /\ UNCHANGED nonParser

NextBuilder == ListImages \/ BuildFrame \/ BuildFinish

InitBuilder ==
  /\ LocalizeOff
  /\ SamplingOff
  /\ InitQueue /\ InitScans /\ RetryOff /\ SupervisorOff /\ InterpreterOff
  /\ ToolsOff
  /\ ParserOff /\ BuilderStart

SpecBuilder == InitBuilder /\ [][NextBuilder]_vars

NextParser == ParseOpen \/ ParseCount \/ ParseRow \/ ParseReturn

InitParser ==
  /\ LocalizeOff
  /\ SamplingOff
  /\ InitQueue /\ InitScans /\ RetryOff /\ SupervisorOff /\ InterpreterOff
  /\ ToolsOff
  /\ BuilderOff /\ ParserStart

SpecParser == InitParser /\ [][NextParser]_vars

Ascending(s) == \A i, j \in DOMAIN s : i < j => s[i] < s[j]
Retained == {f \in Range(listing) : monocular \/ depth[f] = "valid"}

(* C19: build_database visits the frames in filename-sorted order and gives
   the retained frames the node ids 1..k without gaps; without monocular
   mode a frame is retained exactly when its depth image exists, is not
   empty and is not all-zero, in monocular mode every frame is retained; a
   skipped frame takes no id and the Node rows are as many as the retained
   frames. *)
C19_SequentialNodeIds ==
  /\ Ascending(visited)
  /\ \A k \in DOMAIN node_rows : node_rows[k][1] = k
  /\ {node_rows[k][2] : k \in DOMAIN node_rows} \subseteq Retained
  /\ \A k \in DOMAIN node_rows : node_rows[k][2] \in Range(visited)
  /\ bpc = "done" =>
       /\ Range(visited) = Range(listing)
       /\ Len(visited) = Len(listing)
       /\ Len(node_rows) = Cardinality(Retained)
       /\ {node_rows[k][2] : k \in DOMAIN node_rows} = Retained
       /\ Ascending([k \in DOMAIN node_rows |-> node_rows[k][2]])
       /\ node_id = Len(node_rows)
       /\ skipped = Len(listing) - Cardinality(Retained)

C19_Witness ==
  /\ bpc = "done" /\ ~monocular
  /\ Len(listing) = 3 /\ listing[1] > listing[2]
  /\ depth[image_files[1]] = "zero"
  /\ Len(node_rows) = 2

(* C20: parse_database reports as keyframe count the number of Node rows,
   and its keyframes are, in ascending id order, exactly the rows whose
   pose blob is present and is a 48-byte pose record; rows with a null or
   malformed pose are counted but are not among the keyframes. *)
C20_KeyframesOfParse ==
  (gpc = "done" /\ db_file = "ok" /\ keyframe_limit = 0) =>
    /\ num_keyframes = Cardinality(DOMAIN node_table)
    /\ Ascending(keyframes)
    /\ Range(keyframes) = {n \in DOMAIN node_table : node_table[n] = 48}

(* C21: parse_database never raises on a database-level failure: for a
   missing file, a file that is not a database and a database lacking the
   expected tables it returns the result with keyframe count 0, map point
   count 0, loop closure count 0 and no keyframes. *)
C21_ParseNeverRaises ==
  /\ gpc # "raised"
  /\ (gpc \notin {"open", "count"} /\ db_file # "ok") =>
       /\ gpc = "done"
       /\ num_keyframes = 0 /\ num_map_points = 0 /\ loop_closures = 0
       /\ keyframes = <<>>

C21_Witness ==
  /\ gpc = "done" /\ db_file = "no_link"
  /\ node_table # <<>>
  /\ num_keyframes = 0 /\ parse_error # ""

(* C22: a pose-decoding path accepts a pose blob only if it is exactly 48
   bytes long; a longer or shorter blob is never decoded into a pose (here:
   the keyframes of parse_database, decoded by _parse_pose_blob). *)
C22_OnlyExactLength ==
  \A n \in Range(keyframes) : node_table[n] = 48

(* --- Part H: calibration record (build_calibration_blob in db_builder.py,
       extract_intrinsics_from_db in engine.py) --------------------------- *)
\* A double: a number or NaN.
F(v) == [nan |-> FALSE, v |-> v]
NaNF == [nan |-> TRUE, v |-> 0]
FloatVals == {F(0), F(2), F(3), NaNF}

\* `x <= 0` on a double: every comparison with NaN is false.
LeqZeroF(x) == ~x.nan /\ x.v <= 0

\* struct.calcsize('<3i i 2i 4i i 9d 12f')
CalibrationSize == (3 + 1 + 2 + 4 + 1) * 4 + 9 * 8 + 12 * 4

\* A Python integer h * 2^16 + l with 0 <= l < 2^16, kept as two halves so
\* that values beyond four bytes can be written.
Half == 2^16
I(h, l) == [hi |-> h, lo |-> l]
PositiveI(n) == n.hi > 0 \/ (n.hi = 0 /\ n.lo > 0)
INT32_MAX == I(2^15 - 1, Half - 1)
LeqI(a, b) == a.hi < b.hi \/ (a.hi = b.hi /\ a.lo <= b.lo)

\* The range of the struct format 'i': -2^31 .. 2^31 - 1.
InInt32(n) == n.hi >= -(2^15) /\ n.hi <= 2^15 - 1

Intrinsics ==
  [fx : FloatVals, fy : FloatVals, cx : FloatVals, cy : FloatVals,
   width : {I(0, 0), I(0, 1), I(0, 640), INT32_MAX, I(2^15, 0)},
   height : {I(0, 0), I(0, 480), I(2^15, 0)}]

\* Mutant: cx and fy change places in the matrix.
KMatrix_Swapped(fx, fy, cx, cy) ==
  <<fx, F(0), fy, F(0), cx, cy, F(0), F(0), F(1)>>

\* K = [fx, 0.0, cx, 0.0, fy, cy, 0.0, 0.0, 1.0]
KMatrix(fx, fy, cx, cy) ==
  <<fx, F(0), cx, F(0), fy, cy, F(0), F(0), F(1)>>

\* Blobs a Data row can hold: no data, a wrong size, or 164 bytes with any
\* image size and matrix entries.
Blobs ==
  {[size |-> n] : n \in {0, CalibrationSize - 1, CalibrationSize + 1}} \cup
  {[size |-> CalibrationSize, width |-> w, height |-> h,
    K |-> <<a, F(0), c, F(0), b, d, F(0), F(0), F(1)>>] :
     w \in {I(-1, Half - 1), I(0, 0), I(0, 640)}, h \in {I(0, 0), I(0, 480)},
     a \in FloatVals, b \in FloatVals, c \in FloatVals, d \in FloatVals}

CalibrationStart ==
  /\ \/ /\ hpc = "encode"
        /\ cal_in \in Intrinsics
        /\ cal_blob = NoBlob
     \/ /\ hpc = "decode"
        /\ cal_in = NoIntrinsics
        /\ cal_blob \in Blobs
  /\ cal_out = NoOutcome

\* build_calibration_blob: struct.pack raises struct.error for an image size
\* outside the range of a 4-byte integer.
EncodeCalibration ==
  /\ hpc = "encode"
  /\ IF InInt32(cal_in.width) /\ InInt32(cal_in.height)
       THEN /\ cal_blob' =
                 [size |-> CalibrationSize,
                  width |-> cal_in.width, height |-> cal_in.height,
                  K |-> KMatrix(cal_in.fx, cal_in.fy, cal_in.cx, cal_in.cy)]
            /\ hpc' = "decode"
            /\ UNCHANGED cal_out
       ELSE /\ cal_out' = [kind |-> "struct.error"]
            /\ hpc' = "done"
            /\ UNCHANGED cal_blob
  /\ UNCHANGED cal_in
  /\ UNCHANGED nonCalibration

\* extract_intrinsics_from_db on the blob of the first Data row: each
\* ValueError is re-raised as ValueError("Failed to extract intrinsics: ...").
DecodeCalibration ==
  /\ hpc = "decode"
  /\ cal_out' =
       IF cal_blob.size = 0
         THEN [kind |-> "No calibration data found"]
       ELSE IF cal_blob.size # CalibrationSize
         THEN [kind |-> "Invalid calibration BLOB size"]
       ELSE LET width == cal_blob.width
                height == cal_blob.height
                fx == cal_blob.K[1]
                fy == cal_blob.K[5]
                cx == cal_blob.K[3]
                cy == cal_blob.K[6]
            IN IF \/ LeqZeroF(fx) \/ LeqZeroF(fy)
                  \/ LeqZeroF(cx) \/ LeqZeroF(cy)
                  \/ ~PositiveI(width) \/ ~PositiveI(height)
                 THEN [kind |-> "Invalid intrinsics values"]
                 ELSE [kind |-> "ok",
                       value |-> [fx |-> fx, fy |-> fy, cx |-> cx, cy |-> cy,
                                  width |-> width, height |-> height]]
  /\ hpc' = "done"
  /\ UNCHANGED <<cal_in, cal_blob>>
  /\ UNCHANGED nonCalibration

NextCalibration == EncodeCalibration \/ DecodeCalibration

InitCalibration ==
  /\ LocalizeOff
  /\ SamplingOff
  /\ InitQueue /\ InitScans /\ RetryOff /\ SupervisorOff /\ InterpreterOff
  /\ CodecOff /\ ScalingOff /\ ParamsOff /\ PipelineOff
  /\ CalibrationStart

SpecCalibration == InitCalibration /\ [][NextCalibration]_vars

StrictlyPositiveF(x) == ~x.nan /\ x.v > 0
Decoded == hpc = "done" /\ cal_out.kind # "struct.error"

\* The six values of a 164-byte blob are all strictly positive.
ValidRecord(b) ==
  /\ b.size = 164
  /\ StrictlyPositiveF(b.K[1]) /\ StrictlyPositiveF(b.K[5])
  /\ StrictlyPositiveF(b.K[3]) /\ StrictlyPositiveF(b.K[6])
  /\ PositiveI(b.width) /\ PositiveI(b.height)

(* C23: decoding a calibration record succeeds exactly when the buffer is
   164 bytes long and fx, fy, cx, cy, width and height are all strictly
   positive; another length fails as a malformed record (an empty buffer as
   missing data) and a non-positive value as invalid intrinsics. *)
C23_DecodeValidOnly ==
  Decoded =>
    /\ cal_out.kind = "ok" <=> ValidRecord(cal_blob)
    /\ cal_blob.size # 164 =>
         cal_out.kind \in {"Invalid calibration BLOB size",
                           "No calibration data found"}
    /\ (cal_blob.size = 164 /\ ~ValidRecord(cal_blob)) =>
         cal_out.kind = "Invalid intrinsics values"

AllPositive(c) ==
  /\ StrictlyPositiveF(c.fx) /\ StrictlyPositiveF(c.fy)
  /\ StrictlyPositiveF(c.cx) /\ StrictlyPositiveF(c.cy)
  /\ PositiveI(c.width) /\ PositiveI(c.height)

RoundTrips ==
  /\ cal_blob.size = 164
  /\ cal_out.kind = "ok"
  /\ cal_out.value = cal_in

(* C24 (amended): for all intrinsics with fx, fy, cx, cy strictly positive
   and width and height positive integers of at most 2^31 - 1, the encoded
   record has exactly 164 bytes and decoding it returns the same six
   values. *)
C24_RoundTripInt32 ==
  (hpc = "done" /\ cal_in # NoIntrinsics /\ AllPositive(cal_in)
     /\ LeqI(cal_in.width, INT32_MAX) /\ LeqI(cal_in.height, INT32_MAX)) => RoundTrips

C24_Witness ==
  /\ hpc = "done" /\ cal_in # NoIntrinsics
  /\ cal_in.width = INT32_MAX /\ cal_in.fx # cal_in.cx /\ cal_in.fy # cal_in.cx
  /\ RoundTrips

(* C24 (as stated): for all intrinsics with the six values strictly
   positive, the encoded record has exactly 164 bytes and decoding it
   returns the same six values. *)
C24_RoundTripAllPositive ==
  (hpc = "done" /\ cal_in # NoIntrinsics /\ AllPositive(cal_in)) => RoundTrips

(* --- Part I: scale_intrinsics (engine.py) ------------------------------- *)
\* An exact number n / d with d > 0.
Q(n, d) == [n |-> n, d |-> d]
GtQ(a, b) == a.n * b.d > b.n * a.d
LtQ(a, b) == a.n * b.d < b.n * a.d
MulQ(a, b) == Q(a.n * b.n, a.d * b.d)

\* The limits 5.0 and 0.2 of the scale factors.
MAX_SCALE == Q(5, 1)
MIN_SCALE == Q(2, 10)

\* Intrinsics as extract_intrinsics_from_db returns them (all values positive)
\* and the image size of the query.
Originals ==
  [fx : {Q(3, 1), Q(7, 2)}, fy : {Q(3, 1), Q(4, 1)}, cx : {Q(2, 1)},
   cy : {Q(1, 1), Q(2, 1)}, width : {5, 10}, height : {5}]
NewWidths == {1, 2, 5, 10, 25, 50, 51}
NewHeights == {1, 5, 25, 26}

ScalingStart ==
  /\ original \in Originals
  /\ new_width \in NewWidths
  /\ new_height \in NewHeights
  /\ ipc = "call"
  /\ scaled = NoOutcome

\* Mutant: the limits themselves are rejected.
Extreme_Inclusive(scale_x, scale_y) ==
  \/ ~LtQ(scale_x, MAX_SCALE) \/ ~LtQ(scale_y, MAX_SCALE)
  \/ ~GtQ(scale_x, MIN_SCALE) \/ ~GtQ(scale_y, MIN_SCALE)

\* scale_x > 5.0 or scale_y > 5.0 or scale_x < 0.2 or scale_y < 0.2
Extreme(scale_x, scale_y) ==
  \/ GtQ(scale_x, MAX_SCALE) \/ GtQ(scale_y, MAX_SCALE)
  \/ LtQ(scale_x, MIN_SCALE) \/ LtQ(scale_y, MIN_SCALE)

ScaleIntrinsics ==
  /\ ipc = "call"
  /\ LET old_width == original.width
         old_height == original.height
         scale_x == Q(new_width, old_width)
         scale_y == Q(new_height, old_height)
     IN scaled' =
          IF old_width = new_width /\ old_height = new_height
            THEN [kind |-> "ok", value |-> original]
          ELSE IF Extreme(scale_x, scale_y)
            THEN [kind |-> "Extreme scaling detected"]
          ELSE [kind |-> "ok",
                value |-> [fx |-> MulQ(original.fx, scale_x),
                           fy |-> MulQ(original.fy, scale_y),
                           cx |-> MulQ(original.cx, scale_x),
                           cy |-> MulQ(original.cy, scale_y),
                           width |-> new_width,
                           height |-> new_height]]
  /\ ipc' = "done"
  /\ UNCHANGED <<original, new_width, new_height>>
  /\ UNCHANGED nonScaling

NextScaling == ScaleIntrinsics

InitScaling ==
  /\ LocalizeOff
  /\ SamplingOff
  /\ InitQueue /\ InitScans /\ RetryOff /\ SupervisorOff /\ InterpreterOff
  /\ CodecOff /\ CalibrationOff /\ ParamsOff /\ PipelineOff
  /\ ScalingStart

SpecScaling == InitScaling /\ [][NextScaling]_vars

SameSize == new_width = original.width /\ new_height = original.height

\* newW/oldW or newH/oldH is greater than 5 or less than 1/5, in integers.
OutOfRange ==
  \/ new_width > 5 * original.width \/ new_height > 5 * original.height
  \/ 5 * new_width < original.width \/ 5 * new_height < original.height

\* x equals y * new / old.
IsScaled(x, y, new, old) == x.n * y.d * old = y.n * new * x.d

(* C25: scale_intrinsics returns its input unchanged when the new size
   equals the original one; otherwise it raises the extreme-scaling error
   exactly when a scale factor is above 5 or below 1/5 (exactly 5 and exactly
   1/5 are accepted), and in every other case returns fx, cx times
   newW/oldW, fy, cy times newH/oldH and the new width and height. *)
C25_ScaleIntrinsics ==
  ipc = "done" =>
    /\ SameSize => scaled = [kind |-> "ok", value |-> original]
    /\ ~SameSize =>
         /\ scaled.kind = "Extreme scaling detected" <=> OutOfRange
         /\ ~OutOfRange =>
              /\ scaled.kind = "ok"
              /\ IsScaled(scaled.value.fx, original.fx,
                          new_width, original.width)
              /\ IsScaled(scaled.value.cx, original.cx,
                          new_width, original.width)
              /\ IsScaled(scaled.value.fy, original.fy,
                          new_height, original.height)
              /\ IsScaled(scaled.value.cy, original.cy,
                          new_height, original.height)
              /\ scaled.value.width = new_width
              /\ scaled.value.height = new_height

\* A width factor of exactly 5 with a height factor of exactly 1/5 is scaled.
C25_Witness ==
  /\ ipc = "done" /\ scaled.kind = "ok"
  /\ new_width = 5 * original.width /\ 5 * new_height = original.height
  /\ scaled.value.fx # original.fx

(* --- Part J: the parameter string (build_database in db_builder.py,
       extract_params_from_db in engine.py) ------------------------------- *)
\* Strings are sequences of characters; keys and values have at most one.
Chars == {"a", "b", ":", ";"}
Strings == {<<>>} \cup {<<c>> : c \in Chars}

\* A dict as the sequence of its items in insertion order: keys are distinct.
DistinctKeys(items) ==
  \A i, j \in 1..Len(items) : items[i][1] = items[j][1] => i = j
Mappings ==
  {items \in UNION {[1..n -> Strings \X Strings] : n \in 0..MaxParams} :
     DistinctKeys(items)}

ParamsStart ==
  /\ slam_params \in Mappings
  /\ params_str = <<>>
  /\ jpc = "write"
  /\ params = <<>>

\* ";".join(f"{k}:{v}" for k, v in slam_params.items())
RECURSIVE Join(_)
Join(items) ==
  IF items = <<>> THEN <<>>
  ELSE IF Len(items) = 1 THEN items[1][1] \o <<":">> \o items[1][2]
  ELSE items[1][1] \o <<":">> \o items[1][2] \o <<";">> \o Join(Tail(items))

\* build_database: params_str stays "" for an empty mapping.
WriteParams ==
  /\ jpc = "write"
  /\ params_str' = IF slam_params # <<>> THEN Join(slam_params) \o <<";">>
                                          ELSE <<>>
  /\ jpc' = "read"
  /\ UNCHANGED <<slam_params, params>>
  /\ UNCHANGED nonParams

\* Index of the first c in s, 0 if there is none.
Find(s, c) ==
  IF \E i \in 1..Len(s) : s[i] = c
    THEN CHOOSE i \in 1..Len(s) : s[i] = c /\ \A j \in 1..(i - 1) : s[j] # c
    ELSE 0

\* s.split(';')
RECURSIVE Split(_)
Split(s) ==
  LET i == Find(s, ";")
  IN IF i = 0 THEN <<s>>
     ELSE <<SubSeq(s, 1, i - 1)>> \o Split(SubSeq(s, i + 1, Len(s)))

\* Mutant: a pair with an empty value is skipped.
IsPair_NonEmptyValue(pair) ==
  Find(pair, ":") # 0 /\ Find(pair, ":") < Len(pair)

\* ':' in pair
IsPair(pair) == Find(pair, ":") # 0

\* pair.split(':', 1)
KeyValue(pair) ==
  LET i == Find(pair, ":")
  IN <<SubSeq(pair, 1, i - 1), SubSeq(pair, i + 1, Len(pair))>>

\* params[key] = value: a known key keeps its place and takes the new value.
SetItem(items, kv) ==
  IF \E i \in 1..Len(items) : items[i][1] = kv[1]
    THEN [i \in 1..Len(items) |->
            IF items[i][1] = kv[1] THEN kv ELSE items[i]]
    ELSE Append(items, kv)

RECURSIVE ParsePairs(_, _)
ParsePairs(pairs, acc) ==
  IF pairs = <<>> THEN acc
  ELSE ParsePairs(Tail(pairs),
                  IF IsPair(pairs[1]) THEN SetItem(acc, KeyValue(pairs[1]))
                                      ELSE acc)

\* extract_params_from_db: an empty Info.parameters gives {}.
ReadParams ==
  /\ jpc = "read"
  /\ params' = IF params_str = <<>> THEN <<>>
                                    ELSE ParsePairs(Split(params_str), <<>>)
  /\ jpc' = "done"
  /\ UNCHANGED <<slam_params, params_str>>
  /\ UNCHANGED nonParams

NextParams == WriteParams \/ ReadParams

InitParams ==
  /\ LocalizeOff
  /\ SamplingOff
  /\ InitQueue /\ InitScans /\ RetryOff /\ SupervisorOff /\ InterpreterOff
  /\ CodecOff /\ CalibrationOff /\ ScalingOff /\ PipelineOff
  /\ ParamsStart

SpecParams == InitParams /\ [][NextParams]_vars

Clean(s) == \A i \in 1..Len(s) : s[i] \notin {":", ";"}
CleanMapping(items) ==
  \A i \in 1..Len(items) : Clean(items[i][1]) /\ Clean(items[i][2])
ItemSet(items) == {items[i] : i \in 1..Len(items)}

(* C26: for every ordered parameter mapping whose keys and values contain
   neither ':' nor ';', parsing the string written into the Info row yields
   exactly the same key-to-value mapping. *)
C26_ParamsRoundTrip ==
  (jpc = "done" /\ CleanMapping(slam_params)) =>
    /\ DistinctKeys(params)
    /\ ItemSet(params) = ItemSet(slam_params)

\* Two pairs, one with an empty value, written and read back.
C26_Witness ==
  /\ jpc = "done" /\ CleanMapping(slam_params)
  /\ Len(slam_params) = 2 /\ slam_params[1][2] = <<>>
  /\ slam_params[2][1] # <<>>
  /\ params = slam_params

(* C28: every supervisor invocation passes through Launching and Running in
   that order and ends in exactly one of Completed, TimedOut or Failed; a
   build ends Completed only if the child exited with code 0 within the
   budget and the output database exists; a timeout is never reported as
   Failed nor a failure as TimedOut. *)
C28_InvocationStates ==
  /\ [][ppc' # ppc =>
          <<ppc, ppc'>> \in {<<"idle", "launching">>,
                             <<"launching", "running">>,
                             <<"running", "ended">>}]_vars
  /\ [](ppc = "ended" <=> outcome \in {"Completed", "Timeout", "EngineFailure"})
  /\ []((kind = "build" /\ outcome = "Completed") =>
          /\ child = "exited" /\ returncode = 0
          /\ clock <= SLAM_TIMEOUT_SECONDS
          /\ output_db)
  /\ [](outcome = "EngineFailure" => kills = <<>>)
  /\ [](outcome = "Timeout" => (kills # <<>> /\ returncode = -1))

(* C29: after a build invocation has timed out the supervisor consumes no
   further output of the child: the stdout monitor task is stopped and the
   progress hook is not invoked again for that invocation. *)
C29_NothingReadAfterTimeout ==
  /\ [](BuildTimedOut => monitor_task # "reading")
  /\ [][BuildTimedOut => (out_pipe' = out_pipe /\ progress' = progress)]_vars

(* --- Part K: the build pipeline (RTABMapEngine.process, _run_export) ---- *)
\* Everything of the supervisor that process itself does not touch.
supervisorRest ==
  <<kind, use_docker, clock, child, returncode, kills, outcome, pipes,
    reaped, message, has_hook, monitor_task, processed, output_db>>

\* Mutant: the values after the reprocess and after the export change places.
StagePercent_ExportFirst(stage) ==
  CASE stage = "start" -> 5
    [] stage = "intrinsics" -> 10
    [] stage = "database" -> 30
    [] stage = "reprocess" -> 90
    [] stage = "export" -> 80
    [] stage = "load" -> 100

\* The fixed values process passes to progress_callback.
StagePercent(stage) ==
  CASE stage = "start" -> 5
    [] stage = "intrinsics" -> 10
    [] stage = "database" -> 30
    [] stage = "reprocess" -> 80
    [] stage = "export" -> 90
    [] stage = "load" -> 100

\* if progress_callback: await progress_callback(value)
Notify(stage) ==
  IF has_hook THEN Append(progress, StagePercent(stage)) ELSE progress

PipelineStart ==
  /\ SupervisorStart
  /\ kind = "build"
  /\ kpc = "start"
  /\ export_outcome = "none"
  /\ process_result = "none"

\* What process does when an exception reaches its handler: print and raise.
Raise ==
  /\ process_result' = "raised"
  /\ kpc' = "done"

\* progress_callback(5), then _extract_camera_intrinsics: no intrinsics in
\* the poses raises ValueError.
ExtractCameraIntrinsics ==
  /\ kpc = "start"
  /\ progress' = Notify("start")
  /\ \E found \in BOOLEAN :
       IF found THEN kpc' = "database" /\ UNCHANGED process_result
                ELSE Raise
  /\ UNCHANGED <<ppc, supervisorRest, export_outcome>>
  /\ UNCHANGED nonPipeline

\* progress_callback(10), then build_database, which may raise.
BuildInputDatabase ==
  /\ kpc = "database"
  /\ progress' = Notify("intrinsics")
  /\ \E built \in BOOLEAN :
       IF built THEN kpc' = "reprocess" /\ UNCHANGED process_result
                ELSE Raise
  /\ UNCHANGED <<ppc, supervisorRest, export_outcome>>
  /\ UNCHANGED nonPipeline

\* progress_callback(30), then the call of _run_reprocess with the hook.
CallReprocess ==
  /\ kpc = "reprocess" /\ ppc = "idle"
  /\ progress' = Notify("database")
  /\ ppc' = "launching"
  /\ kpc' = "reprocessing"
  /\ UNCHANGED <<supervisorRest, export_outcome, process_result>>
  /\ UNCHANGED nonPipeline

\* _run_reprocess returned (progress_callback(80) follows) or raised.
ReprocessReturns ==
  /\ kpc = "reprocessing" /\ ppc = "ended"
  /\ IF outcome = "Completed"
       THEN /\ progress' = Notify("reprocess")
            /\ kpc' = "export"
            /\ UNCHANGED process_result
       ELSE /\ Raise
            /\ UNCHANGED progress
  /\ UNCHANGED <<ppc, supervisorRest, export_outcome>>
  /\ UNCHANGED nonPipeline

\* How the export child can end: exit code 0, another exit code, no exit
\* within 120 s, or an error raised while starting or awaiting it.
ExportOutcomes == {"ok", "nonzero", "timeout", "raised"}

\* Mutant: the timeout of the export reaches process.
ExportPropagates_Timeout(o) == o = "timeout"

\* _run_export prints on a non-zero exit code and catches
\* asyncio.TimeoutError and Exception: nothing reaches process.
ExportPropagates(o) == FALSE

\* _run_export, then progress_callback(90).
RunExport ==
  /\ kpc = "export"
  /\ \E o \in ExportOutcomes :
       /\ export_outcome' = o
       /\ IF ExportPropagates(o)
            THEN /\ Raise
                 /\ UNCHANGED progress
            ELSE /\ progress' = Notify("export")
                 /\ kpc' = "parse"
                 /\ UNCHANGED process_result
  /\ UNCHANGED <<ppc, supervisorRest>>
  /\ UNCHANGED nonPipeline

\* parse_database (which returns also on errors) and _load_map_file of the
\* output database, progress_callback(100), and the map is returned.
ParseAndLoad ==
  /\ kpc = "parse"
  /\ progress' = Notify("load")
  /\ process_result' = "returned"
  /\ kpc' = "done"
  /\ UNCHANGED <<ppc, supervisorRest, export_outcome>>
  /\ UNCHANGED nonPipeline

NextPipeline ==
  \/ ExtractCameraIntrinsics
  \/ BuildInputDatabase
  \/ CallReprocess
  \/ Launch
  \/ Tick
  \/ ChildWriteStdout
  \/ ChildWriteStderr
  \/ DrainStdout
  \/ MonitorEnds
  \/ ChildExit
  \/ Reap
  \/ ObserveExit
  \/ TimeoutExpires
  \/ ReprocessReturns
  \/ RunExport
  \/ ParseAndLoad

InitPipeline ==
  /\ LocalizeOff
  /\ SamplingOff
  /\ InitQueue /\ InitScans /\ RetryOff /\ InterpreterOff /\ CodecOff
  /\ CalibrationOff /\ ScalingOff /\ ParamsOff
  /\ PipelineStart

SpecPipeline == InitPipeline /\ [][NextPipeline]_vars

ExportFailed == export_outcome \in {"nonzero", "timeout", "raised"}

(* C27: a failure of the point-cloud export step (non-zero exit, timeout
   after 120 s, or any raised error) never fails the build pipeline: the
   pipeline goes on to parse the processed database and returns the map. *)
C27_ExportFailureNotFatal ==
  ExportFailed =>
    /\ kpc \in {"parse", "done"}
    /\ process_result # "raised"
    /\ kpc = "done" => process_result = "returned"

C27_Witness ==
  /\ export_outcome = "timeout"
  /\ kpc = "done" /\ process_result = "returned"
  /\ outcome = "Completed" /\ output_db

NonDecreasing(s) == \A i \in 1..(Len(s) - 1) : s[i] <= s[i + 1]

(* C30: during one build the percentages delivered to the progress hook
   never decrease, whatever lines the engine writes. *)
C30_ProgressMonotonic == NonDecreasing(progress)

\* A build whose output had progress markers and that delivered all six
\* stage values.
C30_Witness ==
  /\ process_result = "returned" /\ has_hook
  /\ processed > 1
  /\ Len(progress) = 6 /\ progress[4] = 80 /\ progress[6] = 100

(* ------------------ further claims on Part A --------------------------- *)
\* Jobs the worker has taken and let go of again.
Released == {j \in Range(startOrder) : j # cur}

(* C32: when a durable status write raises inside the worker, the write of
   the failed status in the error handler included, the worker loop does
   not end: the job is marked done on the queue exactly once and the worker
   is back at queue.get(), where it takes the next job. *)
C32_StoreFaultKeepsWorker ==
  /\ \A j \in Jobs : doneCount[j] <= 1
  /\ \A j \in Released :
       (storeRaised[j] /\ ~shutdown_flag) =>
         /\ doneCount[j] = 1
         /\ worker_task = "alive" /\ wpc # "stopped"
         /\ (cur = 0 /\ queue # <<>>) => ENABLED WorkerGet

\* The failed write of the handler raised for the first job, and the second
\* job was taken afterwards.
C32_Witness ==
  /\ Len(startOrder) = 2
  /\ storeRaised[startOrder[1]] /\ procOutcome[startOrder[1]] = "raised"
  /\ status[<<startOrder[1], 1>>] = SCAN_STATUS_PROCESSING
  /\ doneCount[startOrder[1]] = 1
  /\ ~shutdown_flag

(* C33: within the processing of one job, a session whose durable status
   was written as completed is never afterwards overwritten with failed. *)
C33_CompletedNotOverwritten ==
  \A s \in SessionIds :
    \A i, k \in 1..Len(writes[s]) :
      (i < k /\ writes[s][i] = SCAN_STATUS_COMPLETED) =>
        writes[s][k] # SCAN_STATUS_FAILED

(* C34: after shutdown() has completed no job is ever started again on the
   queue instance: jobs still queued stay unprocessed and a later
   start_worker cannot resume draining them. *)
C34_NoStartAfterShutdown ==
  [][(shutdownReturns > 0 /\ spc = "idle") => startOrder' = startOrder]_vars

(* C35: start_worker raises and starts nothing while the worker task it
   holds is alive, and creates a worker only when it holds none or a
   finished one, so that two worker tasks never drain the queue. *)
C35_SingleWorker ==
  [][(starts' + startErrors' # starts + startErrors) =>
       IF worker_task = "alive"
         THEN /\ startErrors' = startErrors + 1
              /\ starts' = starts
              /\ UNCHANGED <<worker_task, wpc, cur, queue>>
         ELSE /\ starts' = starts + 1
              /\ startErrors' = startErrors
              /\ worker_task' = "alive" /\ wpc' = "get"]_vars

\* One call was refused while the first worker was busy with a job.
C35_Witness ==
  /\ startErrors = 1 /\ starts = 1
  /\ worker_task = "alive" /\ cur # 0

(* ------------------ further claim on Part C ---------------------------- *)
(* C38: an error that is neither a PostgresError nor a
   ConnectionRefusedError leaves the retry wrapper from the attempt that
   raised it: the operation is not called again and no backoff sleep
   follows it. *)
C38_OtherErrorNotRetried ==
  \A i \in 1..calls :
    script[i] = "other" =>
      /\ i = calls
      /\ rpc = "raised" /\ rresult = "other"
      /\ Len(sleeps) = calls - 1

\* The first call raised such an error: one call, no sleep.
C38_Witness ==
  /\ calls = 1 /\ script[1] = "other"
  /\ rpc = "raised" /\ rresult = "other"
  /\ sleeps = <<>>

(* --------- Part L: DatabaseParser.extract_point_cloud ------------------ *)
nonSampling ==
  <<qvars, svars, rvars, pvars, evars, fvars, gvars, hvars, ivars, jvars,
    kvars, mvars>>

\* Node ids of the database; row k belongs to node NodeOf(k).
CloudNodes == {1, 2}
NodeOf(k) == (k % 2) + 1

\* A Python float is an IEEE-754 double: MANT_DIG significant bits.  A
\* positive float is [hi, mid, lo, point]: its significand is
\* hi * 2^(2*LIMB_BITS) + mid * 2^LIMB_BITS + lo with the top bit of hi set,
\* and the first point bits of the significand stand before the binary point.
MANT_DIG == 53
LIMB_BITS == 24
HI_BITS == MANT_DIG - 2 * LIMB_BITS
LIMB == 2^LIMB_BITS

\* number of binary digits of a positive integer
BitLen(v) == CHOOSE k \in 1..30 : 2^(k - 1) <= v /\ v < 2^k

\* Round an exact value to MANT_DIG bits, to nearest, ties to even.  The
\* limbs hold the first MANT_DIG bits; up says that the discarded part is
\* above one half of the last kept bit, tie that it is exactly one half.
RoundNearestEven(hi, mid, lo, point, up, tie) ==
  LET inc  == up \/ (tie /\ lo % 2 = 1)
      lo1  == IF inc THEN lo + 1 ELSE lo
      mid1 == mid + lo1 \div LIMB
      hi1  == hi + mid1 \div LIMB
  IN IF hi1 = 2^HI_BITS
       THEN [hi |-> 2^(HI_BITS - 1), mid |-> 0, lo |-> 0, point |-> point + 1]
       ELSE [hi |-> hi1, mid |-> mid1 % LIMB, lo |-> lo1 % LIMB,
             point |-> point]

\* len(feature_rows) / float(max_points) for n > m > 0, by long division
\* LIMB_BITS bits at a time
FloatDiv(n, m) ==
  LET whole == n \div m
      g     == HI_BITS - BitLen(whole)
      low   == 2^(LIMB_BITS - g)
      d1    == (n % m) * LIMB
      d2    == (d1 % m) * LIMB
      d3    == (d2 % m) * 2^g
      q1    == d1 \div m
      q2    == d2 \div m
      q3    == d3 \div m
      rem   == d3 % m
  IN RoundNearestEven(whole * 2^g + q1 \div low,
                      (q1 % low) * 2^g + q2 \div low,
                      (q2 % low) * 2^g + q3,
                      BitLen(whole), 2 * rem > m, 2 * rem = m)

\* i * step for an integer i >= 1 and a positive float step
FloatMul(i, step) ==
  LET p0      == step.lo * i
      p1      == step.mid * i + p0 \div LIMB
      p2      == step.hi * i + p1 \div LIMB
      l0      == p0 % LIMB
      l1      == p1 % LIMB
      extra   == BitLen(p2) - HI_BITS
      cut     == 2^extra
      up      == LIMB \div cut
      dropped == l0 % cut
  IN RoundNearestEven(p2 \div cut,
                      (p2 % cut) * up + l1 \div cut,
                      (l1 % cut) * up + l0 \div cut,
                      step.point + extra,
                      2 * dropped > cut, extra > 0 /\ 2 * dropped = cut)

\* int(x): the bits before the binary point
IntOf(x) ==
  IF x.point <= HI_BITS
    THEN x.hi \div 2^(HI_BITS - x.point)
    ELSE x.hi * 2^(x.point - HI_BITS)
           + x.mid \div 2^(LIMB_BITS - (x.point - HI_BITS))

\* int(i * step) of line 51
SampleIndex(i, step) == IF i = 0 THEN 0 ELSE IntOf(FloatMul(i, step))

\* The exact even stride floor(i*n/m).
FloorIndex(i, n, m) == (i * n) \div m

SamplingStart ==
  /\ feature_rows \in 0..MaxFeatureRows
  /\ max_points \in (0 - 1)..MaxPoints
  /\ pose_by_node \in SUBSET CloudNodes
  /\ cpc = "call"
  /\ sampled_rows = <<>>
  /\ points = <<>>

\* rows of sampled that have a pose, in order
RECURSIVE Posed(_)
Posed(rows) ==
  IF rows = <<>> THEN <<>>
  ELSE LET rest == Posed(Tail(rows))
       IN IF NodeOf(Head(rows)) \in pose_by_node
            THEN <<Head(rows)>> \o rest ELSE rest

extract_point_cloud ==
  /\ cpc = "call"
  /\ cpc' = "returned"
  /\ IF max_points <= 0 \/ feature_rows = 0 \/ pose_by_node = {}
       THEN /\ sampled_rows' = <<>>
            /\ points' = <<>>
       ELSE /\ sampled_rows' =
                 IF feature_rows > max_points
                   THEN LET step == FloatDiv(feature_rows, max_points)
                        IN [i \in 1..max_points |-> SampleIndex(i - 1, step)]
                   ELSE [i \in 1..feature_rows |-> i - 1]
            /\ points' = Posed(sampled_rows')
  /\ UNCHANGED <<feature_rows, max_points, pose_by_node>>
  /\ UNCHANGED nonSampling

NextSampling == extract_point_cloud

InitSampling ==
  /\ LocalizeOff
  /\ InitQueue /\ InitScans /\ RetryOff /\ SupervisorOff /\ InterpreterOff
  /\ CodecOff /\ ToolsOff
  /\ SamplingStart

SpecSampling == InitSampling /\ [][NextSampling]_vars

Sampled == cpc = "returned" /\ max_points > 0 /\ feature_rows > max_points /\ pose_by_node # {}

(* C31: extract_point_cloud returns at most max_points points; when the
   number n of rows exceeds max_points m the rows sampled are exactly those
   at floor(i*n/m) for i = 0..m-1, strictly increasing and below n; when
   n <= m every row is used; when max_points <= 0 the result is empty. *)
C31_EvenStride ==
  cpc = "returned" =>
    /\ Len(points) <= Max(max_points, 0)
    /\ max_points <= 0 => points = <<>>
    /\ Sampled =>
         /\ sampled_rows =
              [i \in 1..max_points |->
                 FloorIndex(i - 1, feature_rows, max_points)]
         /\ \A i \in 1..(max_points - 1) : sampled_rows[i] < sampled_rows[i + 1]
         /\ \A i \in 1..max_points : sampled_rows[i] < feature_rows
    /\ (max_points > 0 /\ feature_rows <= max_points /\ pose_by_node # {}) =>
         sampled_rows = [i \in 1..feature_rows |-> i - 1]

(* --------- Part M: RTABMapEngine.localize, two concurrent calls -------- *)
nonLocalize ==
  <<qvars, svars, rvars, pvars, evars, fvars, gvars, hvars, ivars, jvars,
    kvars, cvars>>

\* The two requests that the routes await on the one event loop.
Calls == {1, 2}
MapIds == {1, 2}

LocalizeStart ==
  /\ map_files \in SUBSET MapIds
  /\ docker_exec \in BOOLEAN
  /\ now = 0
  /\ on_disk = {}
  /\ zpc = [c \in Calls |-> "idle"]
  /\ session_dir = [c \in Calls |-> NoDir]
  /\ rtabmap = [c \in Calls |-> "none"]
  /\ exit_kind = [c \in Calls |-> "none"]
  /\ loc_result = [c \in Calls |-> "none"]

Dirs(d) == {e.dir : e \in d}

\* images_dir.mkdir(parents=True, exist_ok=True), then write_bytes of every
\* query_<i>.jpg: an existing directory is reused and its files overwritten
SaveQueryImages(c, dir) ==
  {e \in on_disk : e.dir # dir} \cup {[dir |-> dir, owner |-> c]}

\* Mutant: the finally block leaves the directory.
rmtree_Keep(dir) == on_disk

\* finally: if session_dir.exists(): shutil.rmtree(session_dir)
rmtree(dir) == {e \in on_disk : e.dir # dir}

\* The wall clock moves on by TickSeconds.
LocalizeTick ==
  /\ now + TickSeconds <= MaxTime
  /\ now' = now + TickSeconds
  /\ UNCHANGED <<map_files, docker_exec, on_disk, zpc, session_dir, rtabmap,
                 exit_kind, loc_result>>
  /\ UNCHANGED nonLocalize

\* localize up to its first await: the map check, the session directory,
\* the query images and the command line run without yielding.
LocalizeBegin(c) ==
  /\ zpc[c] = "idle"
  /\ \E map_id \in MapIds :
       IF map_id \notin map_files
         THEN /\ zpc' = [zpc EXCEPT ![c] = "raised"]
              /\ loc_result' = [loc_result EXCEPT ![c] = "FileNotFoundError"]
              /\ UNCHANGED <<on_disk, session_dir>>
         ELSE LET dir == <<map_id, now>> IN
              /\ session_dir' = [session_dir EXCEPT ![c] = dir]
              /\ on_disk' = SaveQueryImages(c, dir)
              /\ zpc' = [zpc EXCEPT ![c] = "spawn"]
              /\ UNCHANGED loc_result
  /\ UNCHANGED <<map_files, docker_exec, now, rtabmap, exit_kind>>
  /\ UNCHANGED nonLocalize

\* await asyncio.create_subprocess_exec(*cmd, ...): the engine starts, or
\* the executable is missing and the finally block runs on the way out
LocalizeSpawn(c) ==
  /\ zpc[c] = "spawn"
  /\ \E installed \in BOOLEAN :
       IF installed
         THEN /\ rtabmap' = [rtabmap EXCEPT ![c] = "running"]
              /\ zpc' = [zpc EXCEPT ![c] = "communicate"]
              /\ UNCHANGED <<on_disk, loc_result>>
         ELSE /\ zpc' = [zpc EXCEPT ![c] = "raised"]
              /\ loc_result' = [loc_result EXCEPT ![c] = "NotInstalled"]
              /\ on_disk' = rmtree(session_dir[c])
              /\ UNCHANGED rtabmap
  /\ UNCHANGED <<map_files, docker_exec, now, session_dir, exit_kind>>
  /\ UNCHANGED nonLocalize

\* rtabmap-console ends by itself
EngineExits(c) ==
  /\ rtabmap[c] = "running"
  /\ rtabmap' = [rtabmap EXCEPT ![c] = "exited"]
  /\ \E k \in {"match", "nomatch", "fail"} :
       exit_kind' = [exit_kind EXCEPT ![c] = k]
  /\ UNCHANGED <<map_files, docker_exec, now, on_disk, zpc, session_dir,
                 loc_result>>
  /\ UNCHANGED nonLocalize

\* communicate() returned: return code, output, pose lookup, then finally
LocalizeFinish(c) ==
  /\ zpc[c] = "communicate"
  /\ rtabmap[c] = "exited"
  /\ \E pose_found \in BOOLEAN :
       LET r == CASE exit_kind[c] \in {"fail", "killed"} -> "EngineFailure"
                  [] exit_kind[c] = "nomatch" -> "NoMatch"
                  [] OTHER -> IF pose_found THEN "ok" ELSE "PoseFailure"
       IN /\ loc_result' = [loc_result EXCEPT ![c] = r]
          /\ zpc' = [zpc EXCEPT ![c] = IF r = "ok" THEN "returned"
                                                   ELSE "raised"]
  /\ on_disk' = rmtree(session_dir[c])
  /\ UNCHANGED <<map_files, docker_exec, now, session_dir, rtabmap,
                 exit_kind>>
  /\ UNCHANGED nonLocalize

\* wait_for gave up after LOCALIZE_TIMEOUT_SECONDS: in docker mode pkill
\* ends every rtabmap-console of the container, else process.kill() ends
\* this call's; TimeoutError is raised through the finally block
LocalizeTimeout(c) ==
  /\ zpc[c] = "communicate"
  /\ rtabmap[c] = "running"
  /\ now - session_dir[c][2] >= LOCALIZE_TIMEOUT_SECONDS
  /\ LET hit == IF docker_exec THEN {k \in Calls : rtabmap[k] = "running"}
                               ELSE {c}
     IN /\ rtabmap' = [k \in Calls |->
                         IF k \in hit THEN "exited" ELSE rtabmap[k]]
        /\ exit_kind' = [k \in Calls |->
                           IF k \in hit THEN "killed" ELSE exit_kind[k]]
  /\ zpc' = [zpc EXCEPT ![c] = "raised"]
  /\ loc_result' = [loc_result EXCEPT ![c] = "TimeoutError"]
  /\ on_disk' = rmtree(session_dir[c])
  /\ UNCHANGED <<map_files, docker_exec, now, session_dir>>
  /\ UNCHANGED nonLocalize

NextLocalize ==
  \/ LocalizeTick
  \/ \E c \in Calls :
       \/ LocalizeBegin(c)
       \/ LocalizeSpawn(c)
       \/ EngineExits(c)
       \/ LocalizeFinish(c)
       \/ LocalizeTimeout(c)

InitLocalize ==
  /\ InitQueue /\ InitScans /\ RetryOff /\ SupervisorOff /\ InterpreterOff
  /\ CodecOff /\ ToolsOff /\ SamplingOff
  /\ LocalizeStart

SpecLocalize == InitLocalize /\ [][NextLocalize]_vars

Ended == {"returned", "raised"}
OwnImagesOnDisk(c) == [dir |-> session_dir[c], owner |-> c] \in on_disk
EngineNotEnded(c) == zpc[c] \in {"spawn", "communicate"} /\ rtabmap[c] # "exited"

(* C36: two concurrent localize calls never share or delete each other's
   session directory: the query images a call wrote stay on on_disk until
   that call's own rtabmap-console has ended. *)
C36_OwnSessionDirectory ==
  \A c \in Calls : EngineNotEnded(c) => OwnImagesOnDisk(c)

(* C37: the step in which a localize call returns or raises leaves its
   session directory removed, whatever the outcome; a call for a missing
   map raises FileNotFoundError without creating a directory and without
   launching rtabmap-console. *)
C37_SessionDirectoryRemoved ==
  [][\A c \in Calls :
       (zpc[c] \notin Ended /\ zpc'[c] \in Ended) =>
         IF loc_result'[c] = "FileNotFoundError"
           THEN /\ on_disk' = on_disk
                /\ session_dir'[c] = NoDir
                /\ rtabmap'[c] = "none"
           ELSE /\ session_dir[c] # NoDir
                /\ session_dir[c] \notin Dirs(on_disk')]_vars

\* One call timed out and the other raised not-found; nothing is left.
C37_Witness ==
  /\ loc_result[1] = "TimeoutError" /\ session_dir[1] # NoDir
  /\ loc_result[2] = "FileNotFoundError" /\ session_dir[2] = NoDir
  /\ rtabmap[2] = "none"
  /\ on_disk = {}

====
